---- MODULE Spec2Model ----
(***************************************************************************)
(* Home Control Center: device synchronisation and scheduling protocol.    *)
(*                                                                         *)
(* Three parts of the repository are modelled:                             *)
(*   - the Schedule Compiler (computeSchedule, modules/shelly/index.js),   *)
(*   - the Device Agent script (CONFIG, applyRules, syncConfig and the     *)
(*     device-local control endpoint) together with the coordinator       *)
(*     endpoints that talk to it (pull, save-settings, control,           *)
(*     reconcile),                                                         *)
(*   - the coordinator's liveness monitor (deviceStatus, getShellyStatus,  *)
(*     handleHeartbeat, checkOfflineDevices, notification store).          *)
(*                                                                         *)
(* Conventions.  JavaScript arrays are 0-indexed, sequences here are       *)
(* 1-indexed: At(a, i) reads a[i].  Prices and price thresholds are        *)
(* integers in units of 0.01 currency/kWh (0.05 is 5, the sentinel 9999    *)
(* is 999900); period averages are kept as exact fractions <<sum, count>>. *)
(* JavaScript null/undefined is Null for strings, NoSlot for slot numbers,  *)
(* NoTime for timestamps and the empty sequence for an optional value      *)
(* (<<v>> when present).  Timestamps (ISO strings in the code, compared    *)
(* through new Date()) are positive natural numbers.                       *)
(*                                                                         *)
(* Specifications.  SpecSched calls computeSchedule once on sampled        *)
(* arguments; Spec is the device protocol (coordinator requests, pulls in  *)
(* flight, the script's timers and its control endpoint); SpecConverge is  *)
(* the pull path of the device protocol under fairness; SpecMonitor is     *)
(* the liveness monitor; SpecRegistry is the monitor with the operator     *)
(* deleting and adding the device; SpecBuild calls buildConfigForDevice    *)
(* once; SpecPush is the push-notify with its cooldown; SpecControl and    *)
(* SpecReconcile call the control and reconcile routes once; SpecWatchdog  *)
(* is watchdog.js beside the monitor; SpecOffline is the device with the   *)
(* coordinator unreachable; SpecResolve calls resolveServerSlot once;      *)
(* SpecCycle is the device's sync and heartbeat retry cycles; SpecStore is  *)
(* notification_state.json updated by two processes; SpecHeartbeat calls   *)
(* the lastSync normalisation of handleHeartbeat once; SpecManual and     *)
(* SpecCorrective are the operator's control and reconcile requests on a   *)
(* device in automatic mode; SpecDelivery is the monitor with the          *)
(* notification transport; SpecTurn calls turnOnShelly or turnOffShelly    *)
(* once.  Each specification leaves the variables of the other parts at    *)
(* their idle values.                                                      *)
(***************************************************************************)
EXTENDS Integers, Sequences, FiniteSets, TLC

VARIABLES
  \* --- Schedule Compiler harness: one call of computeSchedule ---
  csPrices,     \* the prices argument
  csSettings,   \* the settings argument
  csResult,     \* the returned schedule, <<>> before the call
  \* --- coordinator, as seen by one device ---
  now,          \* the coordinator's clock (Date.now(), new Date())
  saved,        \* settings_<id>.json: <<policy>>, << >> when there is no file
  priceCache,   \* prices.json: the name of the cached price curve
  events,       \* requests and timer firings so far (exploration budget)
  \* --- Device Agent (the script on the relay) ---
  CONFIG,       \* the script's CONFIG object
  relay,        \* physical output of switch:0
  rtc,          \* slot read from the device clock (getTimeSlot())
  pulls,        \* sync attempts in flight: HTTP.GET responses and retry timers
  \* --- Liveness Monitor of the coordinator, for one registered device ---
  deviceStatus, \* deviceStatus[id]: the in-memory entry, or no entry
  notified,     \* notification_state.json: devices[id], NoTime when absent
  alertOutcome, \* what the last operation decided: "sent", "suppressed", "none"
  alertsInRow,  \* alerts sent in this run since the last clearing event (0..2)
  priorAlert,   \* an alert was on record when the process last started and
                \* no heartbeat has been accepted since
  monOp,        \* the monitor operation that ran last
  hadAlert,     \* an alert was on record when that operation started
  lastPoll,     \* what the most recent status poll reported
  \* --- device registry (config.json: shellyDevices) ---
  registered,   \* the device id is in the registry
  request,      \* the last request made under an id, and its response
  \* --- snapshot builder harness: one call of buildConfigForDevice ---
  built,        \* the snapshot returned, <<>> before the call
  \* --- push-notify of the coordinator (tryPushConfigToDevice) ---
  pushState,    \* pushState[id]: lastAttempt and backoffMs, or no entry
  pushing,      \* pushes waiting for the device's answers
  pushFails,    \* consecutive failed pushes since the last successful one
  sinceTry,     \* seconds since the last push that sent requests started
  pushSent,     \* whether the last push invocation sent a request
  pushReqs,     \* the requests of the push that ended last, with their results
  \* --- control harness: one POST /api/control ---
  ctlArgs,      \* the action requested and what each tier would answer
  ctlResult,    \* requests sent to the device and the response, <<>> before
  \* --- watchdog (watchdog.js) and the server-level notification record ---
  serverHealth,   \* what GET /api/status gives: "ok", "unhealthy", "down"
  serverNotified, \* notification_state.json: serverNotified is set
  dogRun,         \* what the last run of checkServer did
  dogAlerts,      \* down/unhealthy alerts since the record was last cleared
  \* --- slot resolution harness: one call of resolveServerSlot ---
  rsArgs,       \* the serverSlot received and the timeFrame in force
  rsResult,     \* the slot returned, <<>> before the call
  \* --- the device's retry cycles ---
  sync,         \* the syncConfig() cycle that started last
  beat,         \* the sendHeartbeat() cycle that started last
  \* --- notification_state.json as two processes use it ---
  loaded,       \* per process: the state read by loadState() and modified,
                \* not yet written by saveState(); <<>> outside an update
  \* --- lastSync harness: the normalisation in one handleHeartbeat ---
  hbArgs,       \* data.uptime, data.lastSync and the lastSync stored before
  hbResult,     \* the lastSync stored, <<>> before the call
  \* --- the notification transport (sendTelegramMessage) ---
  delivery,     \* the alert whose delivery has resolved last, and how
  \* --- relay command harness: one call of turnOnShelly / turnOffShelly ---
  tsArgs,       \* id, command, the tiers' answers and deviceStatus before
  tsResult,     \* deviceStatus after the call, <<>> before the call
  \* --- observation of the last operation ---
  issued,       \* the switch commands the last operation issued, in order
  rulesRun      \* whether the last operation called applyRules()

csVars == <<csPrices, csSettings, csResult, built>>

coordVars == <<now, saved, priceCache, events>>

devVars == <<CONFIG, relay, rtc, pulls, issued, rulesRun>>

monVars == <<deviceStatus, notified, alertOutcome, alertsInRow, priorAlert,
            monOp, hadAlert, lastPoll>>

regVars == <<registered, request>>

pushVars == <<pushState, pushing, pushFails, sinceTry, pushSent, pushReqs>>

ctlVars == <<ctlArgs, ctlResult>>

dogVars == <<serverHealth, serverNotified, dogRun, dogAlerts>>

rsVars == <<rsArgs, rsResult>>

cycVars == <<sync, beat>>

storeVars == <<loaded>>

hbVars == <<hbArgs, hbResult>>

tailVars == <<delivery, tsArgs, tsResult>>

lateVars == <<storeVars, hbVars, tailVars>>

restVars == <<rsVars, cycVars, lateVars>>

moreVars == <<ctlVars, dogVars, restVars>>

vars == <<csPrices, csSettings, csResult, now, saved, priceCache, events,
          CONFIG, relay, rtc, pulls, issued, rulesRun, deviceStatus, notified,
          alertOutcome, alertsInRow, priorAlert, monOp, hadAlert, lastPoll,
          registered, request, built, pushState, pushing, pushFails,
          sinceTry, pushSent, pushReqs, ctlArgs, ctlResult, serverHealth, serverNotified,
          dogRun, dogAlerts, rsArgs, rsResult, sync, beat, loaded,
          hbArgs, hbResult, delivery, tsArgs, tsResult>>

Null == "null"

NoSlot == 0 - 1

NoTime == 1 - 1

At(a, i) == a[i + 1]

Fill(n, v) == [i \in 1..n |-> v]

Take(a, n) == [i \in 1..(IF Len(a) < n THEN Len(a) ELSE n) |-> a[i]]

Xor(a, b) == a # b

Min2(a, b) == IF a < b THEN a ELSE b

(***************************************************************************)
(* Program constants.                                                      *)
(***************************************************************************)
SlotsPerDay == 96

HoursPerDay == 24

MinNonZeroPrices == 48

SentinelAvg == 999900

(***************************************************************************)
(* Schedule Compiler: computeSchedule(prices, settings).                   *)
(***************************************************************************)
SlotsPerPeriodOf(timeFrame) ==
  IF timeFrame = "30min" THEN 2 ELSE IF timeFrame = "1hour" THEN 4 ELSE 1

\* Sum and count of the price slots of period p that exist in the array
\* (for (j = startIdx; j < endIdx && j < prices.length; j++)).
PeriodSlots(prices, p, spp) ==
  {j \in (p * spp)..(p * spp + spp - 1) : j < Len(prices)}

RECURSIVE SumOver(_, _)
SumOver(prices, S) ==
  IF S = {} THEN 0
  ELSE LET j == CHOOSE x \in S : TRUE
       IN  At(prices, j) + SumOver(prices, S \ {j})

\* count > 0 ? sum / count : 9999, as the fraction <<numerator, denominator>>.
PeriodAverage(prices, p, spp) ==
  LET S == PeriodSlots(prices, p, spp)
  IN  IF S # {} THEN <<SumOver(prices, S), Cardinality(S)>>
      ELSE <<SentinelAvg, 1>>

FracLess(a, b) == a[1] * b[2] < b[1] * a[2]

\* avg < x and avg > x for a threshold x
AvgBelow(avg, x) == avg[1] < x * avg[2]

AvgAbove(avg, x) == avg[1] > x * avg[2]

\* (variant in which equal averages sort the later period first)
SortPositionTiesLate(avgs, p, periods) ==
  Cardinality({q \in 0..(periods - 1) :
                 \/ FracLess(avgs[q], avgs[p])
                 \/ (~FracLess(avgs[p], avgs[q]) /\ q > p)})

\* Position of period p in periodAverages after the (stable) ascending
\* sort by price: the number of periods that sort before it.
SortPosition(avgs, p, periods) ==
  Cardinality({q \in 0..(periods - 1) :
                 \/ FracLess(avgs[q], avgs[p])
                 \/ (~FracLess(avgs[p], avgs[q]) /\ q < p)})

\* Effect of the min/max override on one period, given the value v the
\* cheapest-selection loop left in the schedule.
\* (variant without the max-price branch)
PriceOverrideNoMax(avg, minPrice, maxPrice, v) ==
  IF AvgBelow(avg, minPrice) THEN TRUE ELSE v

PriceOverride(avg, minPrice, maxPrice, v) ==
  IF AvgBelow(avg, minPrice) THEN TRUE
  ELSE IF AvgAbove(avg, maxPrice) THEN FALSE
  ELSE v

computeSchedule(prices, settings) ==
  LET spp     == SlotsPerPeriodOf(settings.timeFrame)
      periods == SlotsPerDay \div spp
      avgs    == [p \in 0..(periods - 1) |-> PeriodAverage(prices, p, spp)]
      cheap   == [p \in 0..(periods - 1) |->
                    SortPosition(avgs, p, periods) < settings.numCheapest]
      final   == [p \in 0..(periods - 1) |->
                    PriceOverride(avgs[p], settings.minPrice,
                                  settings.maxPrice, cheap[p])]
  IN  [s \in 1..SlotsPerDay |-> final[(s - 1) \div spp]]

(***************************************************************************)
(* Price curves used as inputs (units of 0.01 currency/kWh).               *)
(***************************************************************************)
PriceCurve(k) ==
  CASE k = "wave"    -> [i \in 1..SlotsPerDay |-> 4 + ((i * 7) % 23)]
    [] k = "flat"    -> Fill(SlotsPerDay, 10)
    [] k = "ties"    -> [i \in 1..SlotsPerDay |-> IF i % 3 = 0 THEN 6 ELSE 22]
    [] k = "zero"    -> Fill(SlotsPerDay, 0)
    [] k = "sparse"  -> [i \in 1..SlotsPerDay |-> IF i <= 47 THEN 9 ELSE 0]
    [] k = "neg"     -> [i \in 1..SlotsPerDay |-> IF i % 8 = 0 THEN -3 ELSE 4 + (i % 19)]
    [] k = "short"   -> [i \in 1..50 |-> 3 + (i % 11)]
    [] k = "odd"     -> [i \in 1..93 |-> 3 + ((i * 5) % 17)]
    [] k = "twoday"  -> [i \in 1..(2 * SlotsPerDay) |-> 4 + ((i * 7) % 23)]
    [] k = "empty"   -> << >>

CachePrices(pc) == IF pc = "unavailable" THEN << >> ELSE PriceCurve(pc)

(***************************************************************************)
(* Device Agent: helpers of the script.                                    *)
(* The arrays of the model hold only numbers (prices) and booleans         *)
(* (schedule, fallbackHours), so the script's typeof / isNaN tests always  *)
(* pass and are not written out.                                           *)
(***************************************************************************)
getSlotsPerPeriod(cfg) ==
  IF cfg.timeFrame = "30min" THEN 2 ELSE IF cfg.timeFrame = "1hour" THEN 4 ELSE 1

CeilDiv(a, b) == (a + b - 1) \div b

resolveServerSlot(cfg, s) ==
  IF s = NoSlot THEN NoSlot
  ELSE LET spp          == getSlotsPerPeriod(cfg)
           totalPeriods == CeilDiv(Len(cfg.prices), spp)
       IN  IF s >= 0 /\ s < totalPeriods THEN s * spp
           ELSE IF s >= 0 /\ s < Len(cfg.prices) THEN s
           ELSE NoSlot

NonZeroPrices(prices) == Cardinality({i \in 1..Len(prices) : prices[i] > 0})

validateConfig(cfg) ==
  /\ Len(cfg.prices) >= SlotsPerDay
  /\ Len(cfg.schedule) = SlotsPerDay
  /\ NonZeroPrices(cfg.prices) >= MinNonZeroPrices

\* A Switch.Set call: `on` is the physical value sent to the relay;
\* `logical` is the logical state the calling branch intends (its log
\* message / variable), `rc` is CONFIG.reversedControl at the call.
Cmd(on, logical, rc) == [on |-> on, logical |-> logical, rc |-> rc]

\* The slot applyRules uses: the resolved serverSlot when there is one,
\* otherwise getTimeSlot() of the device clock (localSlot).
RuleSlot(cfg, localSlot) ==
  LET resolved == resolveServerSlot(cfg, cfg.serverSlot)
  IN  IF cfg.serverSlot # NoSlot /\ resolved # NoSlot THEN resolved ELSE localSlot

\* (variant whose null-manualState branch switches the relay off)
ManualCmdsNullOff(cfg) ==
  IF cfg.manualState = "on"
  THEN <<Cmd(IF cfg.reversedControl THEN FALSE ELSE TRUE, TRUE,
             cfg.reversedControl)>>
  ELSE <<Cmd(IF cfg.reversedControl THEN TRUE ELSE FALSE, FALSE,
             cfg.reversedControl)>>

\* (variant whose forced-OFF branch ignores reversedControl)
ManualCmdsNoInvert(cfg) ==
  IF cfg.manualState = "on"
  THEN <<Cmd(IF cfg.reversedControl THEN FALSE ELSE TRUE, TRUE,
             cfg.reversedControl)>>
  ELSE IF cfg.manualState = "off"
  THEN <<Cmd(FALSE, FALSE, cfg.reversedControl)>>
  ELSE << >>

\* applyRules, manual-override branch (CONFIG.manualOverride is true).
ManualCmds(cfg) ==
  IF cfg.manualState = "on"
  THEN <<Cmd(IF cfg.reversedControl THEN FALSE ELSE TRUE, TRUE,
             cfg.reversedControl)>>
  ELSE IF cfg.manualState = "off"
  THEN <<Cmd(IF cfg.reversedControl THEN TRUE ELSE FALSE, FALSE,
             cfg.reversedControl)>>
  ELSE << >>

\* (variant that falls back to logical ON when fallbackHours says OFF)
FallbackCmdsOn(cfg, localSlot) ==
  <<Cmd(IF cfg.reversedControl THEN FALSE ELSE TRUE, TRUE,
        cfg.reversedControl)>>

\* applyRules, branch taken when validateConfig() fails.
FallbackCmds(cfg, localSlot) ==
  IF Len(cfg.fallbackHours) = HoursPerDay
  THEN LET hour       == localSlot \div 4
           fallbackOn == At(cfg.fallbackHours, hour)
       IN  <<Cmd(IF cfg.reversedControl THEN ~fallbackOn ELSE fallbackOn,
                 fallbackOn, cfg.reversedControl)>>
  ELSE <<Cmd(IF cfg.reversedControl THEN TRUE ELSE FALSE, FALSE,
             cfg.reversedControl)>>

\* applyRules, schedule branch (validateConfig() passed).
ScheduleCmds(cfg, localSlot) ==
  LET slot       == RuleSlot(cfg, localSlot)
      shouldBeOn == IF Len(cfg.schedule) > slot THEN At(cfg.schedule, slot)
                    ELSE FALSE
  IN  <<Cmd(IF cfg.reversedControl THEN ~shouldBeOn ELSE shouldBeOn,
            shouldBeOn, cfg.reversedControl)>>

\* The Switch.Set calls of one applyRules() run.  (The catch branch of
\* applyRules is not modelled: nothing in its try block throws for the
\* CONFIG values of this model.)
applyRulesCmds(cfg, localSlot) ==
  IF cfg.manualOverride THEN ManualCmds(cfg)
  ELSE IF ~validateConfig(cfg) THEN FallbackCmds(cfg, localSlot)
  ELSE ScheduleCmds(cfg, localSlot)

\* CONFIG after one applyRules() run (only lastPrice is written).
applyRulesConfig(cfg, localSlot) ==
  IF cfg.manualOverride \/ ~validateConfig(cfg) THEN cfg
  ELSE LET slot == RuleSlot(cfg, localSlot)
       IN  [cfg EXCEPT !.lastPrice =
              IF Len(cfg.prices) > slot THEN <<At(cfg.prices, slot)>> ELSE << >>]

\* Result of an operation of the script: the new CONFIG, the Switch.Set
\* calls it made and whether it ran applyRules().
Outcome(cfg, cmds, ran) == [cfg |-> cfg, cmds |-> cmds, ran |-> ran]

RunRules(cfg, localSlot) ==
  Outcome(applyRulesConfig(cfg, localSlot), applyRulesCmds(cfg, localSlot), TRUE)

RelayAfter(r, cmds) == IF cmds = << >> THEN r ELSE cmds[Len(cmds)].on

(***************************************************************************)
(* Coordinator: Configuration Snapshot Builder (buildConfigForDevice).     *)
(***************************************************************************)
DefaultSettings ==
  [minPrice |-> 5, maxPrice |-> 20, numCheapest |-> 4, timeFrame |-> "15min",
   manualOverride |-> FALSE, manualState |-> Null, reversedControl |-> FALSE,
   fallbackHours |-> Fill(HoursPerDay, FALSE)]

\* The model clock samples the day: tick t of the coordinator clock falls
\* into this 15-minute slot (getUTCHours() * 4 + floor(getUTCMinutes() / 15)).
SlotOfTime(t) == (5 + 35 * t) % SlotsPerDay

SettingsOrDefault(file) == IF file = << >> THEN DefaultSettings ELSE file[1]

\* (variant that compiles the schedule whatever the override says)
buildScheduleIgnoresOverride(prices, settings) ==
  computeSchedule(prices, settings)

buildSchedule(prices, settings) ==
  IF settings.manualOverride
  THEN IF settings.manualState = "off" THEN Fill(SlotsPerDay, FALSE)
       ELSE IF settings.manualState = "on" THEN Fill(SlotsPerDay, TRUE)
       ELSE computeSchedule(prices, settings)
  ELSE computeSchedule(prices, settings)

buildConfigForDevice(file, pc, t) ==
  LET prices   == CachePrices(pc)
      settings == SettingsOrDefault(file)
  IN  [minPrice        |-> settings.minPrice,
       maxPrice        |-> settings.maxPrice,
       numCheapest     |-> settings.numCheapest,
       timeFrame       |-> settings.timeFrame,
       manualOverride  |-> settings.manualOverride,
       manualState     |-> settings.manualState,
       reversedControl |-> settings.reversedControl,
       fallbackHours   |-> settings.fallbackHours,
       prices          |-> IF Len(prices) > 0 THEN Take(prices, SlotsPerDay)
                           ELSE Fill(SlotsPerDay, 0),
       schedule        |-> buildSchedule(prices, settings),
       serverSlot      |-> SlotOfTime(t),
       lastUpdated     |-> t]

(***************************************************************************)
(* Device Agent: syncConfig, the callback of one HTTP.GET.                 *)
(***************************************************************************)
\* a || b for numbers: 0 is falsy
JsOr(a, b) == IF a = 0 THEN b ELSE a

\* if (newConfig.prices.length < 96 || newConfig.schedule.length !== 96) throw
StructureOk(snap) ==
  Len(snap.prices) >= SlotsPerDay /\ Len(snap.schedule) = SlotsPerDay

\* (variant that also adopts a snapshot of the same age)
FreshnessGateNotOlder(cfg, snap) ==
  cfg.lastConfigUpdate = NoTime \/ snap.lastUpdated >= cfg.lastConfigUpdate

\* (variant that adopts only the first snapshot)
FreshnessGateFirstOnly(cfg, snap) == cfg.lastConfigUpdate = NoTime

\* !CONFIG.lastConfigUpdate || new Date(lastUpdated) > new Date(CONFIG.lastConfigUpdate)
FreshnessGate(cfg, snap) ==
  cfg.lastConfigUpdate = NoTime \/ snap.lastUpdated > cfg.lastConfigUpdate

\* CONFIG.lastPrice = CONFIG.prices[resolveServerSlot(CONFIG.serverSlot)]
RefreshLastPrice(cfg) ==
  LET resolved == resolveServerSlot(cfg, cfg.serverSlot)
  IN  IF cfg.serverSlot # NoSlot /\ resolved # NoSlot /\ Len(cfg.prices) > resolved
      THEN [cfg EXCEPT !.lastPrice = <<At(cfg.prices, resolved)>>]
      ELSE cfg

\* the fields applied before the freshness gate
ApplyLightweight(cfg, snap) ==
  RefreshLastPrice([cfg EXCEPT !.serverSlot = snap.serverSlot,
                               !.reversedControl = snap.reversedControl])

\* the assignments inside the freshness gate
Adopt(cfg, snap) ==
  LET c == [cfg EXCEPT
              !.minPrice        = JsOr(snap.minPrice, cfg.minPrice),
              !.maxPrice        = JsOr(snap.maxPrice, cfg.maxPrice),
              !.numCheapest     = JsOr(snap.numCheapest, cfg.numCheapest),
              !.timeFrame       = snap.timeFrame,
              !.manualOverride  = snap.manualOverride,
              !.reversedControl = snap.reversedControl,
              !.fallbackHours   = IF Len(snap.fallbackHours) = HoursPerDay
                                  THEN snap.fallbackHours ELSE cfg.fallbackHours,
              !.manualState     = snap.manualState,
              !.prices          = snap.prices,
              !.schedule        = snap.schedule]
  IN  [RefreshLastPrice(c) EXCEPT !.lastConfigUpdate = snap.lastUpdated,
                                  !.serverStatus = TRUE]

\* the element of a one-element set; {e(x) : x \in {v}} names the value v
\* once, as x, inside e
Only(S) == CHOOSE x \in S : TRUE

\* after the assignments inside the freshness gate: applyRules() when the
\* adopted CONFIG validates, else "Invalid config, switch OFF"
AfterAdoption(adopted, localSlot) ==
  IF validateConfig(adopted)
  THEN RunRules(adopted, localSlot)
  ELSE Outcome(adopted, <<Cmd(FALSE, FALSE, adopted.reversedControl)>>, FALSE)

\* after the fields applied before the freshness gate
AfterLightweight(light, snap, localSlot) ==
  IF FreshnessGate(light, snap)
  THEN Only({AfterAdoption(adopted, localSlot) : adopted \in {Adopt(light, snap)}})
  ELSE Outcome(light, << >>, FALSE)

\* The callback for a 200 response carrying snapshot `snap`.
OnPullOk(cfg, snap, localSlot) ==
  IF ~StructureOk(snap)
  THEN RunRules([cfg EXCEPT !.serverStatus = FALSE], localSlot)
  ELSE Only({AfterLightweight(light, snap, localSlot) :
               light \in {ApplyLightweight(cfg, snap)}})

MaxRetries == 3

\* statusCode >= 500 || statusCode === 0 || !statusCode
IsRetryable(code) == code >= 500 \/ code = 0

(***************************************************************************)
(* Device Agent: the device-local control endpoint.                        *)
(***************************************************************************)
ControlTurnOn(cfg) ==
  [cfg EXCEPT !.manualOverride = TRUE, !.manualState = "on"]

ControlTurnOff(cfg) ==
  [cfg EXCEPT !.manualOverride = TRUE, !.manualState = "off"]

ControlClearOverride(cfg, localSlot) ==
  RunRules([cfg EXCEPT !.manualOverride = FALSE, !.manualState = Null], localSlot)

ControlApplyConfig(cfg, newConfig, localSlot) ==
  LET c == [cfg EXCEPT
              !.reversedControl = newConfig.reversedControl,
              !.manualOverride  = newConfig.manualOverride,
              !.manualState     = newConfig.manualState,
              !.timeFrame       = newConfig.timeFrame,
              !.prices          = IF Len(newConfig.prices) >= SlotsPerDay
                                  THEN Take(newConfig.prices, SlotsPerDay)
                                  ELSE cfg.prices,
              !.schedule        = IF Len(newConfig.schedule) = SlotsPerDay
                                  THEN newConfig.schedule ELSE cfg.schedule,
              !.serverSlot      = newConfig.serverSlot,
              !.lastConfigUpdate = newConfig.lastUpdated,
              !.serverStatus    = TRUE]
  IN  IF validateConfig(c) THEN RunRules(c, localSlot)
      ELSE Outcome(c, << >>, FALSE)

ControlApplyConfigSummary(cfg, summary, localSlot) ==
  RunRules([cfg EXCEPT
              !.reversedControl = summary.reversedControl,
              !.manualOverride  = summary.manualOverride,
              !.manualState     = summary.manualState,
              !.serverSlot      = summary.serverSlot,
              !.lastConfigUpdate = summary.lastUpdated,
              !.serverStatus    = TRUE], localSlot)

(***************************************************************************)
(* Bounds and inputs of the device protocol.                               *)
(***************************************************************************)
MaxTime == 2

MaxInFlight == 2

\* requests and timer firings explored in one behaviour
MaxEvents == 3

FallbackNight == [i \in 1..HoursPerDay |-> i <= 12]

Policy(name) ==
  CASE name = "autoRev" -> [DefaultSettings EXCEPT !.numCheapest = 30,
                              !.timeFrame = "1hour", !.reversedControl = TRUE,
                              !.fallbackHours = FallbackNight]
    [] name = "forceOn" -> [DefaultSettings EXCEPT !.manualOverride = TRUE,
                              !.manualState = "on", !.reversedControl = TRUE]
    [] name = "paused"  -> [DefaultSettings EXCEPT !.manualOverride = TRUE,
                              !.reversedControl = TRUE,
                              !.fallbackHours = << >>]
    [] name = "forceOff" -> [DefaultSettings EXCEPT !.manualOverride = TRUE,
                              !.manualState = "off"]
    [] name = "halfHour" -> [DefaultSettings EXCEPT !.numCheapest = 10,
                              !.timeFrame = "30min", !.maxPrice = 25]

PolicyNames == {"autoRev", "forceOn", "paused"}

Policies == {Policy(n) : n \in PolicyNames}

PriceCaches == {"wave", "unavailable"}

FailCodes == {404, 500}

\* settings_<id>.json: absent, or one of the sampled policies
SavedFiles == {<< >>} \cup {<<P>> : P \in Policies}

\* buildConfigForDevice and the reconcile schedule over the sampled inputs,
\* tabulated once (both are pure in the file, the cache and the clock)
ConfigTable ==
  [file \in SavedFiles |-> [pc \in PriceCaches |->
     buildConfigForDevice(file, pc, NoTime)]]

ConfigAt(file, pc, t) ==
  [ConfigTable[file][pc] EXCEPT !.serverSlot = SlotOfTime(t), !.lastUpdated = t]

ReconcileTable ==
  [file \in SavedFiles |-> [pc \in PriceCaches |->
     IF file = << >> THEN Fill(SlotsPerDay, FALSE)
     ELSE computeSchedule(CachePrices(pc), file[1])]]

Tiers == {"script", "rpc", "legacy", "none"}

\* what the device clock may read (it need not agree with the coordinator)
LocalSlots == {SlotOfTime(t) : t \in 1..MaxTime}

(***************************************************************************)
(* Initial state: the script has just been loaded (CONFIG literal), the    *)
(* coordinator has no settings file for the device.                        *)
(***************************************************************************)
InitialConfig ==
  [minPrice |-> 5, maxPrice |-> 20, numCheapest |-> 4, timeFrame |-> "15min",
   manualOverride |-> FALSE, manualState |-> Null, reversedControl |-> FALSE,
   fallbackHours |-> Fill(HoursPerDay, FALSE),
   prices |-> << >>, schedule |-> << >>, lastPrice |-> << >>,
   serverSlot |-> NoSlot, serverStatus |-> FALSE, lastConfigUpdate |-> NoTime]

DevInit ==
  /\ now = 1
  /\ saved = << >>
  /\ priceCache \in PriceCaches
  /\ events = 0
  /\ CONFIG = InitialConfig
  /\ relay \in BOOLEAN
  /\ rtc \in LocalSlots
  /\ pulls = {}
  /\ issued = << >>
  /\ rulesRun = FALSE

DevIdle ==
  /\ now = 1
  /\ saved = << >>
  /\ priceCache = "wave"
  /\ events = 0
  /\ CONFIG = InitialConfig
  /\ relay = FALSE
  /\ rtc = SlotOfTime(1)
  /\ pulls = {}
  /\ issued = << >>
  /\ rulesRun = FALSE

(***************************************************************************)
(* Actions of the device protocol.                                         *)
(***************************************************************************)
\* the script finished an operation with outcome `out`
Finish(outcome) ==
  \E out \in {outcome} :
    /\ CONFIG' = out.cfg
    /\ issued' = out.cmds
    /\ rulesRun' = out.ran
    /\ relay' = RelayAfter(relay, out.cmds)
    /\ rtc' = rtc

\* time passes: the coordinator's clock advances, the device's clock moves
Tick ==
  /\ now < MaxTime
  /\ now' = now + 1
  /\ rtc' \in LocalSlots
  /\ issued' = << >>
  /\ rulesRun' = FALSE
  /\ UNCHANGED <<saved, priceCache, events, CONFIG, relay, pulls, csVars, regVars, pushVars, moreVars,
                 monVars>>

\* an operation that does not run on the device
NoDeviceOp ==
  /\ issued' = << >>
  /\ rulesRun' = FALSE
  /\ UNCHANGED <<CONFIG, relay, rtc, pulls>>

\* one more request or timer firing from the environment
Event ==
  /\ events < MaxEvents
  /\ events' = events + 1
  /\ UNCHANGED <<now, csVars, regVars, pushVars, moreVars, monVars>>

Timer(retry) == [phase |-> "timer", retry |-> retry, code |-> 0, body |-> << >>]

\* GET /api/config/:id answered now from `file` with a fresh snapshot
\* (the callback reads retryCount only when the attempt failed)
Answers(file) ==
  {[phase |-> "resp", retry |-> 0, code |-> 200,
    body |-> <<ConfigAt(file, priceCache, now)>>]}

\* the request failed: no route to the coordinator, or an error status
Failures(retry) ==
  {[phase |-> "resp", retry |-> retry, code |-> c, body |-> << >>] :
     c \in FailCodes}

\* one HTTP.GET of attemptSync and its outcome, drawn from `outcomes`
Requested(outcomes, rest) ==
  /\ \E m \in outcomes : pulls' = rest \cup {m}
  /\ issued' = << >>
  /\ rulesRun' = FALSE
  /\ UNCHANGED <<CONFIG, relay, rtc>>

\* attemptSync(retry)
AttemptSync(file, retry, rest) ==
  Requested(Answers(file) \cup Failures(retry), rest)

\* POST /api/save-settings: the file is written, then the best-effort push
\* either reaches the device's notify endpoint (which starts syncConfig)
\* or is lost
SaveSettings ==
  /\ Event
  /\ \E P \in Policies : \E pushed \in BOOLEAN :
       /\ saved' = <<P>>
       /\ IF pushed /\ Cardinality(pulls) < MaxInFlight
          THEN AttemptSync(<<P>>, 0, pulls)
          ELSE NoDeviceOp
  /\ UNCHANGED priceCache

\* the price-feed collaborator rewrites prices.json
PriceRefresh ==
  /\ Event
  /\ \E pc \in PriceCaches : priceCache' = pc
  /\ NoDeviceOp
  /\ UNCHANGED saved

\* syncConfig() started by the 15-minute timer, the initial run, the
\* notify endpoint (periodic push) or refreshConfig
SyncConfig ==
  /\ Event
  /\ Cardinality(pulls) < MaxInFlight
  /\ AttemptSync(saved, 0, pulls)
  /\ UNCHANGED <<saved, priceCache>>

\* a retry timer set by a failed attempt fires
RetryFires ==
  \E m \in pulls :
    /\ m.phase = "timer"
    /\ AttemptSync(saved, m.retry, pulls \ {m})
    /\ UNCHANGED <<coordVars, csVars, regVars, pushVars, moreVars, monVars>>

\* the callback of an HTTP.GET that returned 200 with a body
PullOk ==
  \E m \in pulls :
    /\ m.phase = "resp" /\ m.code = 200
    /\ pulls' = pulls \ {m}
    /\ Finish(OnPullOk(CONFIG, m.body[1], rtc))
    /\ UNCHANGED <<coordVars, csVars, regVars, pushVars, moreVars, monVars>>

\* the callback of an HTTP.GET that failed
PullFailed ==
  \E m \in pulls :
    /\ m.phase = "resp" /\ m.code # 200
    /\ LET down == [CONFIG EXCEPT !.serverStatus = FALSE]
       IN  IF IsRetryable(m.code) /\ m.retry < MaxRetries
           THEN /\ pulls' = (pulls \ {m}) \cup {Timer(m.retry + 1)}
                /\ Finish(Outcome(down, << >>, FALSE))
           ELSE /\ pulls' = pulls \ {m}
                /\ Finish(RunRules(down, rtc))
    /\ UNCHANGED <<coordVars, csVars, regVars, pushVars, moreVars, monVars>>

\* Timer.set(15 min, true, applyRules)
RulesTimer ==
  /\ Event
  /\ Finish(RunRules(CONFIG, rtc))
  /\ UNCHANGED <<pulls, saved, priceCache>>

\* settings read by /api/control and /api/reconcile: {} when no file
SavedReversed == saved # << >> /\ saved[1].reversedControl

SavedOverride == saved # << >> /\ saved[1].manualOverride

\* turnOnShelly / turnOffShelly reaching the device with physical value
\* `on` through tier `tier`; `logical` is the state the caller intends.
TieredSwitch(on, logical, rc, tier) ==
  IF tier = "script"
  THEN Finish(Outcome(IF on THEN ControlTurnOn(CONFIG) ELSE ControlTurnOff(CONFIG),
                      <<Cmd(on, logical, rc)>>, FALSE))
  ELSE IF tier \in {"rpc", "legacy"}
  THEN Finish(Outcome(CONFIG, <<Cmd(on, logical, rc)>>, FALSE))
  ELSE Finish(Outcome(CONFIG, << >>, FALSE))

\* POST /api/control {action: on | off}
ApiControlSwitch ==
  \E action \in {"on", "off"} : \E tier \in Tiers :
    /\ LET effectiveAction == IF SavedReversed
                              THEN (IF action = "on" THEN "off" ELSE "on")
                              ELSE action
       IN  TieredSwitch(effectiveAction = "on", action = "on", SavedReversed, tier)
    /\ UNCHANGED <<pulls, saved, priceCache>>
    /\ Event

\* POST /api/control {action: clear}
ApiControlClear ==
  \E tier \in {"script", "rpc", "none"} :
    /\ IF tier = "script" THEN Finish(ControlClearOverride(CONFIG, rtc))
       ELSE Finish(Outcome(CONFIG, << >>, FALSE))
    /\ UNCHANGED <<pulls, saved, priceCache>>
    /\ Event

\* POST /api/reconcile/:id
ApiReconcile ==
  \E reachable \in BOOLEAN : \E tier \in Tiers :
    /\ IF SavedOverride
       THEN Finish(Outcome(CONFIG, << >>, FALSE))
       ELSE LET schedule == ReconcileTable[saved][priceCache]
                shouldBeOn     == At(schedule, SlotOfTime(now))
                physShouldBeOn == IF SavedReversed THEN ~shouldBeOn ELSE shouldBeOn
                currentlyOn    == IF reachable THEN relay ELSE FALSE
            IN  IF currentlyOn = physShouldBeOn
                THEN Finish(Outcome(CONFIG, << >>, FALSE))
                ELSE TieredSwitch(physShouldBeOn, shouldBeOn, SavedReversed, tier)
    /\ UNCHANGED <<pulls, saved, priceCache>>
    /\ Event

\* POST /control {action: applyConfig, config: ...} sent to the device
PostApplyConfig ==
  \E t \in 1..now :
    /\ Finish(ControlApplyConfig(CONFIG, ConfigAt(saved, priceCache, t), rtc))
    /\ UNCHANGED <<pulls, saved, priceCache>>
    /\ Event

\* POST /control {action: applyConfigSummary, summary: ...}
PostApplyConfigSummary ==
  \E t \in 1..now :
    /\ Finish(ControlApplyConfigSummary(CONFIG,
          [reversedControl |-> SettingsOrDefault(saved).reversedControl,
           manualOverride  |-> SettingsOrDefault(saved).manualOverride,
           manualState     |-> SettingsOrDefault(saved).manualState,
           serverSlot      |-> SlotOfTime(t),
           lastUpdated     |-> t], rtc))
    /\ UNCHANGED <<pulls, saved, priceCache>>
    /\ Event

DevNext ==
  \/ Tick
  \/ SaveSettings
  \/ PriceRefresh
  \/ SyncConfig
  \/ RetryFires
  \/ PullOk
  \/ PullFailed
  \/ RulesTimer
  \/ ApiControlSwitch
  \/ ApiControlClear
  \/ ApiReconcile
  \/ PostApplyConfig
  \/ PostApplyConfigSummary

(***************************************************************************)
(* Liveness Monitor: getShellyStatus, handleHeartbeat, checkOfflineDevices *)
(* and the Notification Dedup Store, for one registered device.  Time is   *)
(* counted in ticks of five minutes.                                       *)
(***************************************************************************)
\* the 10-minute staleness threshold, in ticks
ThresholdTicks == 2

MonMaxTime == 5

\* deviceStatus has no entry for the device
NoEntry ==
  [present |-> FALSE, online |-> FALSE, lastHeartbeat |-> NoTime,
   lastNotified |-> NoTime, error |-> FALSE]

ensureDeviceState(ds, persisted) ==
  IF ds.present THEN ds
  ELSE [present |-> TRUE, online |-> FALSE, lastHeartbeat |-> NoTime,
        lastNotified |-> persisted, error |-> FALSE]

\* no heartbeat at all, or the last one is older than the threshold
NoRecentHeartbeat(ds, t) ==
  ds.lastHeartbeat = NoTime \/ t - ds.lastHeartbeat > ThresholdTicks

\* (variant that alerts on every failed poll of a silent device)
PollAlertsNoDedup(ds, t) == NoRecentHeartbeat(ds, t)

\* getShellyStatus, catch branch: whether the unreachable alert is sent
PollAlerts(ds, t) ==
  /\ NoRecentHeartbeat(ds, t)
  /\ (ds.lastNotified = NoTime \/ ds.lastNotified < ds.lastHeartbeat)

\* checkOfflineDevices: whether the offline alert is sent
SweepAlerts(ds, persisted, t) ==
  /\ ds.lastHeartbeat # NoTime
  /\ t - ds.lastHeartbeat > ThresholdTicks
  /\ (persisted = NoTime \/ persisted < ds.lastHeartbeat)

\* (variant that sweeps devices the poll reports reachable as well)
SweepNeverSkips(ds) == FALSE

\* checkOfflineDevices: if (deviceStatus[id].online) return
SweepSkips(ds) == ds.online

\* (variant that leaves the in-memory alert timestamp in place)
handleHeartbeatKeepsAlert(ds, t) ==
  [ds EXCEPT !.online = TRUE, !.lastHeartbeat = t, !.error = FALSE]

\* handleHeartbeat: the entry after an accepted heartbeat at time t
handleHeartbeat(ds, t) ==
  [ds EXCEPT !.online = TRUE, !.lastHeartbeat = t, !.error = FALSE,
             !.lastNotified = NoTime]

\* bookkeeping of an operation that sent (or did not send) an alert
Alerting(sent, stale) ==
  /\ alertOutcome' = IF sent THEN "sent" ELSE IF stale THEN "suppressed" ELSE "none"
  /\ alertsInRow' = IF sent THEN Min2(alertsInRow + 1, 2) ELSE alertsInRow
  /\ UNCHANGED priorAlert

\* the operation `op` of the monitor runs
MonOp(op) ==
  /\ monOp' = op
  /\ hadAlert' = (notified # NoTime)

MonInit ==
  /\ deviceStatus = NoEntry
  /\ notified = NoTime
  /\ alertOutcome = "none"
  /\ alertsInRow = 0
  /\ priorAlert = FALSE
  /\ monOp = "start"
  /\ hadAlert = FALSE
  /\ lastPoll = "none"

MonIdle ==
  /\ deviceStatus = NoEntry
  /\ notified = NoTime
  /\ alertOutcome = "none"
  /\ alertsInRow = 0
  /\ priorAlert = FALSE
  /\ monOp = "start"
  /\ hadAlert = FALSE
  /\ lastPoll = "none"

MonFrame ==
  UNCHANGED <<saved, priceCache, events, devVars, csVars, regVars, pushVars, moreVars>>

\* five minutes pass
MonTick ==
  /\ now < MonMaxTime
  /\ now' = now + 1
  /\ alertOutcome' = "none"
  /\ MonOp("tick")
  /\ UNCHANGED <<deviceStatus, notified, alertsInRow, priorAlert, lastPoll>>
  /\ MonFrame

\* getShellyStatus, the RPC answered (1-minute poll, /api/shelly-status)
PollSucceeds ==
  /\ registered
  /\ \E wifi \in BOOLEAN :
       /\ deviceStatus' = [ensureDeviceState(deviceStatus, notified)
                             EXCEPT !.online = wifi, !.error = FALSE]
       /\ lastPoll' = IF wifi THEN "reachable" ELSE "unreachable"
  /\ alertOutcome' = "none"
  /\ alertsInRow' = 0
  /\ MonOp("pollOk")
  /\ UNCHANGED <<now, notified, priorAlert>>
  /\ MonFrame

\* getShellyStatus, the RPC failed
PollFails ==
  /\ registered
  /\ LET ds   == [ensureDeviceState(deviceStatus, notified)
                    EXCEPT !.online = FALSE, !.error = TRUE]
         sent == PollAlerts(ds, now)
     IN  /\ deviceStatus' = IF sent THEN [ds EXCEPT !.lastNotified = now] ELSE ds
         /\ notified' = IF sent THEN now ELSE notified
         /\ Alerting(sent, NoRecentHeartbeat(ds, now))
  /\ lastPoll' = "unreachable"
  /\ MonOp("pollFail")
  /\ UNCHANGED now
  /\ MonFrame

\* handleHeartbeat for the registered device
Heartbeat ==
  /\ registered
  /\ deviceStatus' = handleHeartbeat(ensureDeviceState(deviceStatus, notified), now)
  /\ notified' = NoTime
  /\ alertOutcome' = "none"
  /\ alertsInRow' = 0
  /\ priorAlert' = FALSE
  /\ MonOp("heartbeat")
  /\ UNCHANGED <<now, lastPoll>>
  /\ MonFrame

\* checkOfflineDevices when deviceStatus holds an entry for the device
Sweep ==
  /\ registered
  /\ deviceStatus.present
  /\ IF SweepSkips(deviceStatus)
     THEN /\ Alerting(FALSE, FALSE)
          /\ UNCHANGED <<deviceStatus, notified>>
     ELSE LET sent  == SweepAlerts(deviceStatus, notified, now)
              stale == /\ deviceStatus.lastHeartbeat # NoTime
                       /\ now - deviceStatus.lastHeartbeat > ThresholdTicks
          IN  /\ deviceStatus' =
                   IF stale
                   THEN [deviceStatus EXCEPT
                           !.lastNotified = IF sent THEN now ELSE @,
                           !.online = FALSE, !.error = TRUE]
                   ELSE deviceStatus
              /\ notified' = IF sent THEN now ELSE notified
              /\ Alerting(sent, stale)
  /\ MonOp("sweep")
  /\ UNCHANGED <<now, lastPoll>>
  /\ MonFrame

\* pm2 starts the process again (crash, deploy, reboot): deviceStatus is
\* empty, the store is kept
Restart ==
  /\ deviceStatus' = NoEntry
  /\ priorAlert' = (notified # NoTime)
  /\ alertOutcome' = "none"
  /\ alertsInRow' = 0
  /\ MonOp("restart")
  /\ UNCHANGED <<now, notified, lastPoll>>
  /\ MonFrame

\* checkOfflineDevices when deviceStatus has no entry: reading
\* deviceStatus[id].online throws out of the timer callback, the process
\* exits and is started again
SweepThrows ==
  /\ registered
  /\ ~deviceStatus.present
  /\ deviceStatus' = NoEntry
  /\ priorAlert' = (notified # NoTime)
  /\ alertOutcome' = "none"
  /\ alertsInRow' = 0
  /\ MonOp("sweepThrows")
  /\ UNCHANGED <<now, notified, lastPoll>>
  /\ MonFrame

\* POST /api/sync-rules: the rules file is written and deviceStatus[id] is
\* created as {} when missing (the best-effort push belongs to the device
\* protocol and is taken as lost here)
SyncRules ==
  /\ registered
  /\ \E P \in Policies : saved' = <<P>>
  /\ deviceStatus' = IF deviceStatus.present THEN deviceStatus
                     ELSE [NoEntry EXCEPT !.present = TRUE]
  /\ alertOutcome' = "none"
  /\ MonOp("syncRules")
  /\ UNCHANGED <<now, notified, alertsInRow, priorAlert, lastPoll>>
  /\ UNCHANGED <<priceCache, events, devVars, csVars, regVars, pushVars, moreVars>>

MonNext ==
  \/ MonTick
  \/ PollSucceeds
  \/ PollFails
  \/ Heartbeat
  \/ Sweep
  \/ Restart
  \/ SweepThrows
  \/ SyncRules

(***************************************************************************)
(* Device registry: requests made under the device id while the id is not  *)
(* in the registry, and the routes that delete and add a device.  Every    *)
(* response is recorded in `request`; `seq` flips so that two equal        *)
(* requests in a row are two steps.                                        *)
(***************************************************************************)
NoRequest == [op |-> "none", code |-> 0, seq |-> 0]

Respond(op, code) ==
  request' = [op |-> op, code |-> code, seq |-> 1 - request.seq]

RegIdle ==
  /\ registered = TRUE
  /\ request = NoRequest

\* a request that touches neither the status map nor the files
Untouched ==
  /\ UNCHANGED <<now, saved, priceCache, events, devVars, csVars, monVars,
                 pushVars, moreVars, registered>>

\* GET /api/config/:id, id not in the registry
UnknownPull ==
  /\ ~registered
  /\ Respond("pull", 404)
  /\ Untouched

\* POST /api/heartbeat/:id, id not in the registry: handleHeartbeat returns
\* {status: "error"} and the route answers 400
UnknownHeartbeat ==
  /\ ~registered
  /\ Respond("heartbeat", 400)
  /\ Untouched

\* POST /api/control {id, action}, id not in the registry: turnOnShelly,
\* turnOffShelly and clearOverride throw before ensureDeviceState, the
\* route's catch answers 500
UnknownControl ==
  /\ ~registered
  /\ \E action \in {"on", "off", "clear"} : Respond("control", 500)
  /\ Untouched

\* POST /api/reconcile/:id, id not in the registry
UnknownReconcile ==
  /\ ~registered
  /\ Respond("reconcile", 404)
  /\ Untouched

\* GET /api/shelly-status/:id, id not in the registry: getShellyStatus
\* returns a status object with an error text, the route sends it as 200
UnknownPoll ==
  /\ ~registered
  /\ Respond("poll", 200)
  /\ Untouched

\* POST /api/sync-rules {id, rules}, id not in the registry
UnknownSyncRules ==
  /\ ~registered
  /\ Respond("syncRules", 404)
  /\ Untouched

\* POST /api/save-settings {id, settings}, id not in the registry: the route
\* does not look the id up; the file is written, the push returns at once
\* (no address for the id)
UnknownSaveSettings ==
  /\ ~registered
  /\ \E P \in Policies : saved' = <<P>>
  /\ Respond("saveSettings", 200)
  /\ UNCHANGED <<now, priceCache, events, devVars, csVars, monVars, pushVars, moreVars,
                 registered>>

\* DELETE /api/shelly/:id: the registry entry and settings_<id>.json go
DeleteDevice ==
  /\ registered
  /\ registered' = FALSE
  /\ saved' = << >>
  /\ Respond("delete", 200)
  /\ UNCHANGED <<now, priceCache, events, devVars, csVars, monVars, pushVars, moreVars>>

\* POST /api/shelly: the next numeric id is the one just deleted
AddDevice ==
  /\ ~registered
  /\ registered' = TRUE
  /\ Respond("add", 200)
  /\ UNCHANGED <<now, saved, priceCache, events, devVars, csVars, monVars,
                 pushVars, moreVars>>

RegNext ==
  \/ MonTick
  \/ PollSucceeds
  \/ PollFails
  \/ Heartbeat
  \/ Sweep
  \/ Restart
  \/ SweepThrows
  \/ SyncRules
  \/ UnknownPull
  \/ UnknownHeartbeat
  \/ UnknownControl
  \/ UnknownReconcile
  \/ UnknownPoll
  \/ UnknownSyncRules
  \/ UnknownSaveSettings
  \/ DeleteDevice
  \/ AddDevice

(***************************************************************************)
(* Coordinator: push-notify (tryPushConfigToDevice) for one device.        *)
(* Times are in seconds.  pushState[id] holds a reference to a state       *)
(* object; a push that finds no entry works on an object of its own and    *)
(* stores it only when it ends.  ref = 0 is "no entry"; objs are the       *)
(* objects that an entry or a push in flight refers to.  An object keeps   *)
(* `age`, the time since its lastAttempt (Date.now() - state.lastAttempt), *)
(* counted up to MaxCooldown: no cooldown is longer, so older attempts     *)
(* all pass the cooldown test.                                             *)
(***************************************************************************)
\* state.backoffMs || 2000
MinCooldown == 2

\* Math.min(..., 300000)
MaxCooldown == 300

\* pushes in flight at once (save-settings does not await the push)
MaxPushing == 2

MaxPushObjs == MaxPushing + 1

\* consecutive failures explored
MaxFails == 9

\* the timeouts of the three requests of one push, in seconds
PushTimeout == 4 + 3 + 4

\* { lastAttempt: 0, backoffMs: 0 }
NoPushObj == [age |-> MaxCooldown, backoffMs |-> 0]

NoPushState == [ref |-> 0, objs |-> [k \in 1..MaxPushObjs |-> NoPushObj]]

PushIdle ==
  /\ pushState = NoPushState
  /\ pushing = << >>
  /\ pushFails = 0
  /\ sinceTry = MaxCooldown
  /\ pushSent = FALSE
  /\ pushReqs = << >>

\* const state = pushState[id] || { lastAttempt: 0, backoffMs: 0 }
PushObjOf(ps) == IF ps.ref = 0 THEN NoPushObj ELSE ps.objs[ps.ref]

\* const cooldown = state.backoffMs || 2000
Cooldown(o) == JsOr(o.backoffMs, MinCooldown)

\* now - (state.lastAttempt || 0) < cooldown
CoolingDown(o) == o.age < Cooldown(o)

\* Math.min(prev ? prev * 2 : 2000, 300000) with prev = state.backoffMs || 2000
NextBackoff(o) == Min2(JsOr(o.backoffMs, MinCooldown) * 2, MaxCooldown)

PushRefs(ps, pg) ==
  {ps.ref} \cup {pg[i] : i \in 1..Len(pg)}

\* the object a push takes when there is no entry: a new one
NewPushObj(ps, pg) ==
  CHOOSE k \in 1..MaxPushObjs :
    /\ k \notin PushRefs(ps, pg)
    /\ \A j \in 1..(k - 1) : j \in PushRefs(ps, pg)

\* objects nothing refers to are gone
Collect(ps, pg) ==
  [ps EXCEPT !.objs = [k \in 1..MaxPushObjs |->
     IF k \in PushRefs(ps, pg) THEN ps.objs[k] ELSE NoPushObj]]

RemoveAt(s, i) == [j \in 1..(Len(s) - 1) |-> IF j < i THEN s[j] ELSE s[j + 1]]

\* d seconds later
Older(age, d) == Min2(age + d, MaxCooldown)

PushFrame ==
  UNCHANGED <<now, saved, priceCache, events, devVars, csVars, monVars,
              regVars, moreVars>>

\* tryPushConfigToDevice up to its first await: the cooldown test, then
\* state.lastAttempt = now and the first request
PushStart ==
  /\ registered
  /\ Len(pushing) < MaxPushing
  /\ LET o  == IF pushState.ref = 0 THEN NewPushObj(pushState, pushing)
               ELSE pushState.ref
         st == PushObjOf(pushState)
     IN  IF CoolingDown(st)
         THEN /\ pushSent' = FALSE
              /\ UNCHANGED <<pushState, pushing, sinceTry>>
         ELSE /\ pushState' = [pushState EXCEPT
                                 !.objs[o] = [st EXCEPT !.age = 0]]
              /\ pushing' = Append(pushing, o)
              /\ sinceTry' = 0
              /\ pushSent' = TRUE
  /\ UNCHANGED <<pushFails, pushReqs>>
  /\ PushFrame

PushOutcomes == {"script", "legacy", "rpc", "rpcNot200", "rpcThrows"}

NotifyGet(url, ok) == [url |-> url, ok |-> ok]

\* (variant that requests every candidate whatever the answers)
PushRequestsAll(outcome) ==
  <<NotifyGet("script notify", outcome = "script"),
    NotifyGet("legacy notify", outcome = "legacy"),
    NotifyGet("rpc refresh", outcome = "rpc")>>

\* the axios.get calls of one push that ends with `outcome`: the script
\* notify, then the legacy notify, then the firmware RPC, each only when
\* the one before did not answer 200
PushRequests(outcome) ==
  IF outcome = "script"
  THEN <<NotifyGet("script notify", TRUE)>>
  ELSE IF outcome = "legacy"
  THEN <<NotifyGet("script notify", FALSE), NotifyGet("legacy notify", TRUE)>>
  ELSE <<NotifyGet("script notify", FALSE), NotifyGet("legacy notify", FALSE),
         NotifyGet("rpc refresh", outcome = "rpc")>>

\* the rest of tryPushConfigToDevice, after the device's answers: a 200 from
\* any of the three endpoints resets and stores the state; an RPC request
\* that throws doubles the backoff and stores the state; an RPC answer
\* other than 200 that does not throw falls through
PushEnd ==
  /\ \E i \in 1..Len(pushing), outcome \in PushOutcomes :
       LET o    == pushing[i]
           rest == RemoveAt(pushing, i)
           obj  == pushState.objs[o]
       IN  /\ pushing' = rest
           /\ pushReqs' = PushRequests(outcome)
           /\ CASE outcome \in {"script", "legacy", "rpc"} ->
                     /\ pushState' = Collect([ref |-> o, objs |->
                          [pushState.objs EXCEPT ![o].backoffMs = 0]], rest)
                     /\ pushFails' = 0
                [] outcome = "rpcThrows" ->
                     /\ pushFails < MaxFails
                     /\ pushState' = Collect([ref |-> o, objs |->
                          [pushState.objs EXCEPT ![o].backoffMs = NextBackoff(obj)]],
                          rest)
                     /\ pushFails' = pushFails + 1
                [] outcome = "rpcNot200" ->
                     /\ pushState' = Collect(pushState, rest)
                     /\ UNCHANGED pushFails
  /\ UNCHANGED <<sinceTry, pushSent>>
  /\ PushFrame

\* time passes: one second, or up to one second before the entry's cooldown
\* ends, or up to its end; a push in flight ends before its requests have
\* all timed out
PushWait ==
  /\ LET st == PushObjOf(pushState)
     IN  \E d \in {1, Cooldown(st) - 1 - st.age, Cooldown(st) - st.age} :
           /\ d > 0
           /\ \A i \in 1..Len(pushing) :
                pushState.objs[pushing[i]].age + d <= PushTimeout
           /\ pushState' = [pushState EXCEPT !.objs = [k \in 1..MaxPushObjs |->
                IF k \in PushRefs(pushState, pushing)
                THEN [pushState.objs[k] EXCEPT !.age = Older(@, d)]
                ELSE NoPushObj]]
           /\ sinceTry' = Older(sinceTry, d)
  /\ UNCHANGED <<pushing, pushFails, pushSent, pushReqs>>
  /\ PushFrame

PushNext ==
  \/ PushStart
  \/ PushEnd
  \/ PushWait

\* no call of resolveServerSlot is being examined
RsIdle ==
  /\ rsArgs = [serverSlot |-> 0, timeFrame |-> "15min"]
  /\ rsResult = <<0>>

\* no syncConfig() cycle has started
NoSync ==
  [phase |-> "idle", retryCount |-> 0, delay |-> 0, calls |-> 0,
   applied |-> 0, code |-> << >>, snap |-> << >>, prev |-> << >>]

\* no sendHeartbeat() cycle has started
NoBeat ==
  [phase |-> "idle", retryCount |-> 0, delay |-> 0, calls |-> 0, code |-> << >>]

CycIdle ==
  /\ sync = NoSync
  /\ beat = NoBeat

\* the watchdog process and the server process
StoreProcs == {"watchdog", "server"}

\* neither process is inside an update of notification_state.json
StoreIdle == loaded = [p \in StoreProcs |-> << >>]

\* a field of the heartbeat body after Number(): absent (undefined or
\* null), NaN, or a number
Absent == [kind |-> "absent", val |-> 0]

NotANumber == [kind |-> "nan", val |-> 0]

Num(n) == [kind |-> "num", val |-> n]

\* no heartbeat is being examined
HbIdle ==
  /\ hbArgs = [uptime |-> Absent, lastSync |-> Absent, prev |-> NoTime]
  /\ hbResult = <<NoTime>>

\* no delivery has resolved
NoDelivery == [at |-> NoTime, ok |-> FALSE]

\* the entries of deviceStatus the relay command harness starts from when
\* it is not in use
NoStatus == [d \in {"d1", "d2"} |-> << >>]

TailIdle ==
  /\ delivery = NoDelivery
  /\ tsArgs = [id |-> "d1", command |-> "on",
               answers |-> <<"ok", "ok", "ok">>, status |-> NoStatus]
  /\ tsResult = <<NoStatus>>

LateIdle ==
  /\ StoreIdle
  /\ HbIdle
  /\ TailIdle

RestIdle ==
  /\ RsIdle
  /\ CycIdle
  /\ LateIdle

\* the watchdog has not run, the server answers
NoRun == [outcome |-> "none", delivered |-> FALSE, seq |-> 0]

DogIdle ==
  /\ serverHealth = "ok"
  /\ serverNotified = FALSE
  /\ dogRun = NoRun
  /\ dogAlerts = 0

\* settings files of the snapshot builder and reconcile harnesses
BuildPolicyNames == PolicyNames \cup {"forceOff", "halfHour"}

BuildFiles == {<< >>} \cup {<<Policy(n)>> : n \in BuildPolicyNames}

\* the harnesses of computeSchedule and buildConfigForDevice, not called
CsIdle ==
  /\ built = << >>
  /\ csPrices = << >>
  /\ csSettings = [minPrice |-> 5, maxPrice |-> 20, numCheapest |-> 4,
                   timeFrame |-> "15min"]
  /\ csResult = << >>

(***************************************************************************)
(* Coordinator: manual control (POST /api/control, turnOnShelly,           *)
(* turnOffShelly, clearOverride).  One request is followed tier by tier:   *)
(* answers[i] is what tier i answers if it is requested, "ok" or the       *)
(* message of the error axios throws.                                      *)
(***************************************************************************)
TierAnswers == {"ok", "ECONNREFUSED", "timeout", "status 500"}

ControlActions == {"on", "off", "clear", "toggle"}

\* one HTTP request to the device
TierRequest(tier, command) == [tier |-> tier, command |-> command]

\* `Failed to turn ON Shelly ${id}: ${message}`: the message with the
\* function's prefix in front
Failed(op, message) == <<op>> \o message

\* (variant that goes on to the next tier after a success)
turnShellyAllTiers(command, answers) ==
  [requests |-> <<TierRequest("script", command), TierRequest("rpc", command),
                  TierRequest("legacy", command)>>,
   ok       |-> \E i \in 1..3 : answers[i] = "ok",
   error    |-> IF \E i \in 1..3 : answers[i] = "ok" THEN << >>
                ELSE Failed(command, Failed(command, <<answers[3]>>))]

\* turnOnShelly (command "on") and turnOffShelly (command "off"): the
\* requests made and the outcome; the error thrown by the legacy tier's
\* catch is caught by the outer catch and wrapped once more
turnShelly(command, answers) ==
  IF answers[1] = "ok"
  THEN [requests |-> <<TierRequest("script", command)>>,
        ok |-> TRUE, error |-> << >>]
  ELSE IF answers[2] = "ok"
  THEN [requests |-> <<TierRequest("script", command),
                       TierRequest("rpc", command)>>,
        ok |-> TRUE, error |-> << >>]
  ELSE IF answers[3] = "ok"
  THEN [requests |-> <<TierRequest("script", command),
                       TierRequest("rpc", command),
                       TierRequest("legacy", command)>>,
        ok |-> TRUE, error |-> << >>]
  ELSE [requests |-> <<TierRequest("script", command),
                       TierRequest("rpc", command),
                       TierRequest("legacy", command)>>,
        ok |-> FALSE,
        error |-> Failed(command, Failed(command, <<answers[3]>>))]

\* clearOverride: the script's /control, then the Shelly.Refresh RPC
clearOverride(answers) ==
  IF answers[1] = "ok"
  THEN [requests |-> <<TierRequest("script", "clearOverride")>>,
        ok |-> TRUE, error |-> << >>]
  ELSE IF answers[2] = "ok"
  THEN [requests |-> <<TierRequest("script", "clearOverride"),
                       TierRequest("rpc", "refresh")>>,
        ok |-> TRUE, error |-> << >>]
  ELSE [requests |-> <<TierRequest("script", "clearOverride"),
                       TierRequest("rpc", "refresh")>>,
        ok |-> FALSE, error |-> Failed("clearOverride", <<answers[2]>>)]

\* settings.reversedControl of the file read by the route ({} without file)
FileReversed(file) == file # << >> /\ file[1].reversedControl

\* (variant that passes the action on as it came)
EffectiveActionAsIs(action, reversed) == action

\* effectiveAction of POST /api/control
EffectiveAction(action, reversed) ==
  IF action \in {"on", "off"} /\ reversed
  THEN (IF action = "on" THEN "off" ELSE "on")
  ELSE action

\* POST /api/control {id, action} for the registered device
controlRoute(file, action, answers) ==
  LET effectiveAction == EffectiveAction(action, FileReversed(file))
      done == IF effectiveAction \in {"on", "off"}
              THEN turnShelly(effectiveAction, answers)
              ELSE IF action = "clear" THEN clearOverride(answers)
              ELSE [requests |-> << >>, ok |-> FALSE,
                    error |-> <<"Invalid action">>]
  IN  [requests |-> done.requests,
       code     |-> IF done.ok THEN 200 ELSE 500,
       error    |-> done.error]

CtlIdle ==
  /\ ctlArgs = [action |-> "on", answers |-> <<"ok", "ok", "ok">>]
  /\ ctlResult = << >>

CtlInit ==
  /\ ctlArgs \in [action : ControlActions, answers : [1..3 -> TierAnswers]]
  /\ ctlResult = << >>
  /\ saved \in SavedFiles
  /\ now = 1
  /\ priceCache = "wave"
  /\ events = 0
  /\ CONFIG = InitialConfig
  /\ relay = FALSE
  /\ rtc = SlotOfTime(1)
  /\ pulls = {}
  /\ issued = << >>
  /\ rulesRun = FALSE
  /\ CsIdle
  /\ MonIdle
  /\ RegIdle
  /\ PushIdle
  /\ DogIdle
  /\ RestIdle

CallControl ==
  /\ ctlResult = << >>
  /\ ctlResult' = <<controlRoute(saved, ctlArgs.action, ctlArgs.answers)>>
  /\ UNCHANGED <<ctlArgs, coordVars, devVars, csVars, monVars, regVars,
                 pushVars, dogVars, restVars>>

SpecControl == CtlInit /\ [][CallControl]_vars

(***************************************************************************)
(* Coordinator: reconciliation (POST /api/reconcile/:id), one request.     *)
(***************************************************************************)
\* settings.manualOverride of the file read by the route ({} without file)
FileOverride(file) == file # << >> /\ file[1].manualOverride

\* computeSchedule(prices, {...settings, timeFrame: ...}); without a file
\* the thresholds and numCheapest are undefined and nothing is marked
ReconcileSchedule(file, pc) ==
  IF file = << >> THEN Fill(SlotsPerDay, FALSE)
  ELSE computeSchedule(CachePrices(pc), file[1])

\* what getShellyStatus reports: the output of switch:0, or a failed poll
PollResults == {"on", "off", "failed"}

\* !!status.switchOn (false after a failed poll)
CurrentlyOn(polled) == polled = "on"

\* (variant that commands the device whatever the poll says)
NeedsCommandAlways(currentlyOn, physShouldBeOn) == TRUE

\* currentlyOn === physShouldBeOn returns 'Already in desired state'
NeedsCommand(currentlyOn, physShouldBeOn) == currentlyOn # physShouldBeOn

reconcileRoute(file, pc, t, polled, answers) ==
  IF FileOverride(file)
  THEN [requests |-> << >>, code |-> 200, error |-> << >>]
  ELSE LET shouldBeOn     == At(ReconcileSchedule(file, pc), SlotOfTime(t))
           physShouldBeOn == IF FileReversed(file) THEN ~shouldBeOn
                             ELSE shouldBeOn
       IN  IF ~NeedsCommand(CurrentlyOn(polled), physShouldBeOn)
           THEN [requests |-> << >>, code |-> 200, error |-> << >>]
           ELSE LET done == turnShelly(IF physShouldBeOn THEN "on" ELSE "off",
                                       answers)
                IN  [requests |-> done.requests,
                     code     |-> IF done.ok THEN 200 ELSE 500,
                     error    |-> done.error]

RecInit ==
  /\ ctlArgs \in [action : {"reconcile"}, polled : PollResults,
                  answers : [1..3 -> {"ok", "timeout"}]]
  /\ ctlResult = << >>
  /\ saved \in BuildFiles
  /\ priceCache \in PriceCaches
  /\ now \in 1..MaxTime
  /\ events = 0
  /\ CONFIG = InitialConfig
  /\ relay = FALSE
  /\ rtc = SlotOfTime(1)
  /\ pulls = {}
  /\ issued = << >>
  /\ rulesRun = FALSE
  /\ CsIdle
  /\ MonIdle
  /\ RegIdle
  /\ PushIdle
  /\ DogIdle
  /\ RestIdle

CallReconcile ==
  /\ ctlResult = << >>
  /\ ctlResult' = <<reconcileRoute(saved, priceCache, now, ctlArgs.polled,
                                   ctlArgs.answers)>>
  /\ UNCHANGED <<ctlArgs, coordVars, devVars, csVars, monVars, regVars,
                 pushVars, dogVars, restVars>>

SpecReconcile == RecInit /\ [][CallReconcile]_vars

(***************************************************************************)
(* Watchdog (watchdog.js, run by cron every five minutes in a process of   *)
(* its own): checkServer and the server-level record of the notification   *)
(* store.  isServerNotified, setServerNotified and clearServerNotified     *)
(* each read and write the file in one synchronous step.                   *)
(***************************************************************************)
HealthStates == {"ok", "unhealthy", "down"}

\* a run of the watchdog ended with `outcome`; `delivered` is what
\* sendTelegramMessage returned
RunEnds(outcome, delivered) ==
  dogRun' = [outcome |-> outcome, delivered |-> delivered,
             seq |-> 1 - dogRun.seq]

\* (variant that alerts on every run that finds the server down)
ShouldAlertAlways(isNotified) == TRUE

\* if (!isServerNotified())
ShouldAlert(isNotified) == ~isNotified

DogFrame ==
  UNCHANGED <<coordVars, devVars, csVars, monVars, regVars, pushVars, ctlVars,
              restVars>>

\* the server starts or stops answering /api/status with 200
HealthChanges ==
  /\ \E h \in HealthStates \ {serverHealth} : serverHealth' = h
  /\ UNCHANGED <<serverNotified, dogRun, dogAlerts>>
  /\ DogFrame

\* one run of checkServer
CheckServer ==
  /\ \E delivered \in BOOLEAN :
       IF serverHealth = "ok"
       THEN IF serverNotified
            THEN /\ serverNotified' = FALSE
                 /\ dogAlerts' = 0
                 /\ RunEnds("recovery", delivered)
            ELSE /\ RunEnds("healthy", FALSE)
                 /\ UNCHANGED <<serverNotified, dogAlerts>>
       ELSE IF ShouldAlert(serverNotified)
            THEN /\ serverNotified' = TRUE
                 /\ dogAlerts' = Min2(dogAlerts + 1, 2)
                 /\ RunEnds("alert", delivered)
            ELSE /\ RunEnds("skipped", FALSE)
                 /\ UNCHANGED <<serverNotified, dogAlerts>>
  /\ UNCHANGED serverHealth
  /\ DogFrame

\* the coordinator's monitor runs while the server process is up
MonitorRuns == serverHealth # "down" /\ MonNext

DogNext ==
  \/ HealthChanges
  \/ CheckServer
  \/ MonitorRuns

\* the parts added to the model last, at rest
MoreIdle ==
  /\ CtlIdle
  /\ DogIdle
  /\ RestIdle

(***************************************************************************)
(* Inputs of the Schedule Compiler harness.                                *)
(***************************************************************************)
CurveNames ==
  {"wave", "flat", "ties", "zero", "short", "odd", "twoday", "empty"}

\* a maxPrice no average reaches (the UI's "no limit")
NoLimit == 10 * SentinelAvg

CsMinPrices == {0, 5, 25}

CsMaxPrices == {0, 10, NoLimit}

CsNumCheapest == {0, 1, 4, 96}

TimeFrames == {"15min", "30min", "1hour"}

CsInit ==
  /\ csPrices \in {PriceCurve(k) : k \in CurveNames}
  /\ csSettings \in [minPrice : CsMinPrices, maxPrice : CsMaxPrices,
                      numCheapest : CsNumCheapest, timeFrame : TimeFrames]
  /\ csResult = << >>
  /\ built = << >>

CallComputeSchedule ==
  /\ csResult = << >>
  /\ csResult' = computeSchedule(csPrices, csSettings)
  /\ UNCHANGED <<csPrices, csSettings, built, coordVars, devVars, monVars,
                 regVars, pushVars, moreVars>>

(***************************************************************************)
(* Inputs of the snapshot builder harness: one call of                     *)
(* buildConfigForDevice on a sampled settings file, price cache and clock. *)
(***************************************************************************)
BuildCaches ==
  {"wave", "flat", "ties", "zero", "short", "odd", "twoday", "unavailable"}

BuildInit ==
  /\ saved \in BuildFiles
  /\ priceCache \in BuildCaches
  /\ now \in 1..MaxTime
  /\ events = 0
  /\ built = << >>
  /\ csPrices = << >>
  /\ csSettings = [minPrice |-> 5, maxPrice |-> 20, numCheapest |-> 4,
                   timeFrame |-> "15min"]
  /\ csResult = << >>
  /\ CONFIG = InitialConfig
  /\ relay = FALSE
  /\ rtc = SlotOfTime(1)
  /\ pulls = {}
  /\ issued = << >>
  /\ rulesRun = FALSE
  /\ MonIdle
  /\ RegIdle
  /\ PushIdle /\ MoreIdle

CallBuildConfig ==
  /\ built = << >>
  /\ built' = <<buildConfigForDevice(saved, priceCache, now)>>
  /\ UNCHANGED <<csPrices, csSettings, csResult, coordVars, devVars, monVars,
                 regVars, pushVars, moreVars>>

SpecBuild == BuildInit /\ [][CallBuildConfig]_vars

SchedInit == CsInit /\ DevIdle /\ MonIdle /\ RegIdle /\ PushIdle /\ MoreIdle

SpecSched == SchedInit /\ [][CallComputeSchedule]_vars

\* the device protocol: coordinator, transport and device script
Init == DevInit /\ CsIdle /\ MonIdle /\ RegIdle /\ PushIdle /\ MoreIdle

Spec == Init /\ [][DevNext]_vars

(***************************************************************************)
(* The device protocol under fairness: the clock advances, the device's    *)
(* sync timer keeps firing and is answered, callbacks and retry timers     *)
(* run.  Saves, price refreshes and failed syncs are finitely many         *)
(* (events) and happen before the clock's last tick.                       *)
(***************************************************************************)
EarlySave == now < MaxTime /\ SaveSettings

EarlyPriceRefresh == now < MaxTime /\ PriceRefresh

\* a timer-driven syncConfig whose request fails
FailingSync ==
  /\ Event
  /\ Cardinality(pulls) < MaxInFlight
  /\ Requested(Failures(0), pulls)
  /\ UNCHANGED <<saved, priceCache>>

\* a timer-driven syncConfig whose request is answered
TimerSync ==
  /\ Cardinality(pulls) < MaxInFlight
  /\ Requested(Answers(saved), pulls)
  /\ UNCHANGED <<coordVars, csVars, monVars, regVars, pushVars, moreVars>>

ConvergeNext ==
  \/ Tick
  \/ EarlySave
  \/ EarlyPriceRefresh
  \/ FailingSync
  \/ TimerSync
  \/ RetryFires
  \/ PullOk
  \/ PullFailed

\* the device has just booted, the relay is off
ConvergeInit == DevIdle /\ CsIdle /\ MonIdle /\ RegIdle /\ PushIdle /\ MoreIdle

SpecConverge ==
  /\ ConvergeInit
  /\ [][ConvergeNext]_vars
  /\ WF_vars(Tick)
  /\ SF_vars(TimerSync)
  /\ WF_vars(RetryFires)
  /\ WF_vars(PullOk)
  /\ WF_vars(PullFailed)

(***************************************************************************)
(* The device alone: it has adopted a snapshot and its clock is right, and *)
(* from then on the coordinator cannot be reached.  The re-application     *)
(* timer and the sync timer keep firing while the clock moves from slot to *)
(* slot.                                                                   *)
(***************************************************************************)
\* the wall clock of the device enters the next 15-minute slot
SlotPasses ==
  /\ rtc' = (rtc + 1) % SlotsPerDay
  /\ issued' = << >>
  /\ rulesRun' = FALSE
  /\ UNCHANGED <<CONFIG, relay, pulls, coordVars, csVars, monVars, regVars,
                 pushVars, moreVars>>

OfflineInit ==
  /\ now \in 1..MaxTime
  /\ saved \in SavedFiles
  /\ priceCache = "wave"
  /\ events = 0
  /\ rtc = SlotOfTime(now)
  /\ CONFIG = OnPullOk(InitialConfig, ConfigAt(saved, priceCache, now), rtc).cfg
  /\ relay = RelayAfter(FALSE,
                OnPullOk(InitialConfig, ConfigAt(saved, priceCache, now), rtc).cmds)
  /\ pulls = {}
  /\ issued = << >>
  /\ rulesRun = FALSE
  /\ CsIdle /\ MonIdle /\ RegIdle /\ PushIdle /\ MoreIdle

OfflineNext ==
  \/ SlotPasses
  \/ RulesTimer
  \/ FailingSync
  \/ RetryFires
  \/ PullFailed

SpecOffline == OfflineInit /\ [][OfflineNext]_vars

(***************************************************************************)
(* Slot resolution harness: resolveServerSlot on a device that holds one   *)
(* day of prices, for every serverSlot the coordinator can send.           *)
(***************************************************************************)
\* CONFIG of a device holding a day of prices under `timeFrame`
HeldConfig(timeFrame) ==
  [InitialConfig EXCEPT !.timeFrame = timeFrame,
                        !.prices = ConfigAt(<< >>, "wave", 1).prices]

ResolveInit ==
  /\ rsArgs \in [serverSlot : 0..(SlotsPerDay - 1), timeFrame : TimeFrames]
  /\ rsResult = << >>
  /\ DevIdle /\ CsIdle /\ MonIdle /\ RegIdle /\ PushIdle
  /\ CtlIdle /\ DogIdle /\ CycIdle /\ LateIdle

CallResolve ==
  /\ rsResult = << >>
  /\ rsResult' = <<resolveServerSlot(HeldConfig(rsArgs.timeFrame),
                                     rsArgs.serverSlot)>>
  /\ UNCHANGED <<rsArgs, coordVars, devVars, csVars, monVars, regVars,
                 pushVars, ctlVars, dogVars, cycVars, lateVars>>

SpecResolve == ResolveInit /\ [][CallResolve]_vars

(***************************************************************************)
(* The device's retry cycles: one syncConfig() and one sendHeartbeat()     *)
(* cycle at a time, each with its own retryCount (a closure argument), its *)
(* HTTP call answered within the call's timeout and its one-shot retry     *)
(* timer.  A cycle that ended can be started again by its 15-minute timer. *)
(***************************************************************************)
\* var maxRetries = 2 (sendHeartbeat)
MaxBeatRetries == 2

\* var baseDelay = 10000 (syncConfig), in seconds
SyncBaseDelay == 10

\* var baseDelay = 5000 (sendHeartbeat), in seconds
BeatBaseDelay == 5

\* errorCode of Shelly.call when no HTTP response arrived in time (result
\* is null, the code is negative)
TransportErrors == {0 - 104}

\* statusCode = result.code, or errorCode when there is no result
CallCodes == {200} \cup FailCodes \cup TransportErrors

\* baseDelay * Math.pow(2, retryCount)
RetryDelay(baseDelay, retryCount) == baseDelay * 2 ^ retryCount

\* (variant that allows one retry more)
ShouldRetryOnceMore(code, retryCount, maxRetries) ==
  IsRetryable(code) /\ retryCount <= maxRetries

\* isRetryable && retryCount < maxRetries
ShouldRetry(code, retryCount, maxRetries) ==
  IsRetryable(code) /\ retryCount < maxRetries

CycleFrame ==
  UNCHANGED <<coordVars, csVars, monVars, regVars, pushVars, ctlVars, dogVars,
              rsVars, lateVars>>

\* syncConfig(): attemptSync(0) sends the first HTTP.GET
SyncConfigStarts ==
  /\ sync.phase \in {"idle", "end"}
  /\ sync' = [NoSync EXCEPT !.phase = "call", !.calls = 1]
  /\ NoDeviceOp
  /\ UNCHANGED beat
  /\ CycleFrame

\* the callback of attemptSync's HTTP.GET
SyncReturns ==
  /\ sync.phase = "call"
  /\ \E code \in CallCodes :
       LET snap == ConfigAt(saved, priceCache, now)
           down == [CONFIG EXCEPT !.serverStatus = FALSE]
       IN  IF code = 200
           THEN \E out \in {OnPullOk(CONFIG, snap, rtc)} :
                  /\ Finish(out)
                  /\ sync' = [sync EXCEPT !.phase = "end", !.code = <<code>>,
                                          !.snap = <<snap>>, !.prev = <<CONFIG>>,
                                          !.applied = IF out.ran THEN 1 ELSE 0]
           ELSE IF ShouldRetry(code, sync.retryCount, MaxRetries)
           THEN /\ Finish(Outcome(down, << >>, FALSE))
                /\ sync' = [sync EXCEPT
                              !.phase = "timer", !.code = <<code>>,
                              !.delay = RetryDelay(SyncBaseDelay, sync.retryCount)]
           ELSE /\ Finish(RunRules(down, rtc))
                /\ sync' = [sync EXCEPT !.phase = "end", !.code = <<code>>,
                                        !.prev = <<CONFIG>>, !.applied = 1]
  /\ UNCHANGED <<pulls, beat>>
  /\ CycleFrame

\* Timer.set(delay, false, function() { attemptSync(retryCount + 1); })
SyncRetryFires ==
  /\ sync.phase = "timer"
  /\ sync' = [sync EXCEPT !.phase = "call", !.retryCount = @ + 1,
                          !.calls = @ + 1, !.delay = 0]
  /\ NoDeviceOp
  /\ UNCHANGED beat
  /\ CycleFrame

\* sendHeartbeat(): attemptHeartbeat(0) sends the first HTTP.POST
SendHeartbeat ==
  /\ beat.phase \in {"idle", "end"}
  /\ beat' = [NoBeat EXCEPT !.phase = "call", !.calls = 1]
  /\ UNCHANGED <<devVars, sync>>
  /\ CycleFrame

\* the callback of attemptHeartbeat's HTTP.POST
BeatReturns ==
  /\ beat.phase = "call"
  /\ \E code \in CallCodes :
       beat' = IF code # 200 /\ ShouldRetry(code, beat.retryCount, MaxBeatRetries)
               THEN [beat EXCEPT
                       !.phase = "timer", !.code = <<code>>,
                       !.delay = RetryDelay(BeatBaseDelay, beat.retryCount)]
               ELSE [beat EXCEPT !.phase = "end", !.code = <<code>>]
  /\ UNCHANGED <<devVars, sync>>
  /\ CycleFrame

\* Timer.set(delay, false, function() { attemptHeartbeat(retryCount + 1); })
BeatRetryFires ==
  /\ beat.phase = "timer"
  /\ beat' = [beat EXCEPT !.phase = "call", !.retryCount = @ + 1,
                          !.calls = @ + 1, !.delay = 0]
  /\ UNCHANGED <<devVars, sync>>
  /\ CycleFrame

\* POST /api/save-settings whose push does not reach the device
OperatorSaves ==
  /\ \E P \in Policies : saved' = <<P>>
  /\ UNCHANGED <<now, priceCache, events, devVars, csVars, monVars, regVars,
                 pushVars, moreVars>>

CycleInit ==
  /\ DevIdle /\ CsIdle /\ MonIdle /\ RegIdle /\ PushIdle /\ MoreIdle

CycleNext ==
  \/ SyncConfigStarts
  \/ SyncReturns
  \/ SyncRetryFires
  \/ SendHeartbeat
  \/ BeatReturns
  \/ BeatRetryFires
  \/ OperatorSaves
  \/ Tick

\* every HTTP call is answered or times out (15 s, 10 s) and every retry
\* timer that was set fires
SpecCycle ==
  /\ CycleInit
  /\ [][CycleNext]_vars
  /\ WF_vars(SyncReturns)
  /\ WF_vars(SyncRetryFires)
  /\ WF_vars(BeatReturns)
  /\ WF_vars(BeatRetryFires)

(***************************************************************************)
(* notification_state.json shared by two processes.  The watchdog process  *)
(* runs setServerNotified / clearServerNotified, the server process runs   *)
(* setDeviceLastNotified / clearDeviceLastNotified.  Each is loadState(),  *)
(* a change of the object read, saveState(); the file calls are            *)
(* synchronous inside one process, the other process runs between them.    *)
(* The file is <<serverNotified, notified>>.                               *)
(***************************************************************************)
\* loadState(): the content of the file
FileState == [serverNotified |-> serverNotified, device |-> notified]

StoreUpdates == {"setServerNotified", "clearServerNotified",
                 "setDeviceLastNotified", "clearDeviceLastNotified"}

\* the process that runs an update
ProcOf(update) ==
  IF update \in {"setServerNotified", "clearServerNotified"}
  THEN "watchdog" ELSE "server"

\* the object read, after the update's assignment or delete
Modified(s, update, ts) ==
  CASE update = "setServerNotified"       -> [s EXCEPT !.serverNotified = TRUE]
    [] update = "clearServerNotified"     -> [s EXCEPT !.serverNotified = FALSE]
    [] update = "setDeviceLastNotified"   -> [s EXCEPT !.device = ts]
    [] update = "clearDeviceLastNotified" -> [s EXCEPT !.device = NoTime]

\* clearDeviceLastNotified saves only if (s.devices && s.devices[id])
Saves(s, update) == update # "clearDeviceLastNotified" \/ s.device # NoTime

StoreFrame ==
  UNCHANGED <<coordVars, devVars, csVars, regVars, pushVars, ctlVars, rsVars,
              cycVars, hbVars, tailVars, deviceStatus, alertOutcome, alertsInRow, priorAlert,
              monOp, hadAlert, lastPoll, serverHealth, dogRun, dogAlerts>>

\* const s = loadState(); s.<entry> = ...
StoreLoads ==
  /\ \E update \in StoreUpdates :
       /\ loaded[ProcOf(update)] = << >>
       /\ Saves(FileState, update)
       /\ loaded' = [loaded EXCEPT
                       ![ProcOf(update)] = <<Modified(FileState, update, now)>>]
  /\ UNCHANGED <<serverNotified, notified>>
  /\ StoreFrame

\* saveState(s)
StoreSaves ==
  /\ \E p \in StoreProcs :
       /\ loaded[p] # << >>
       /\ serverNotified' = loaded[p][1].serverNotified
       /\ notified' = loaded[p][1].device
       /\ loaded' = [loaded EXCEPT ![p] = << >>]
  /\ StoreFrame

StoreInit ==
  /\ DevIdle /\ CsIdle /\ MonIdle /\ RegIdle /\ PushIdle /\ MoreIdle

StoreNext ==
  \/ StoreLoads
  \/ StoreSaves
  \/ Tick

SpecStore == StoreInit /\ [][StoreNext]_vars

(***************************************************************************)
(* lastSync harness: the normalisation of data.lastSync in handleHeartbeat. *)
(* Epoch times are scaled by 10^8: second counts are in units of 10^8 s    *)
(* and millisecond counts in units of 10^8 ms, so that 1e9 is 10, 1e12 is  *)
(* 10000 and the largest time a Date can hold, 8.64e15 ms, is 86400000; a  *)
(* second count times 1000 is the millisecond count, as in the code.  A    *)
(* stored ISO timestamp is its millisecond count, null is NoTime.          *)
(***************************************************************************)
\* 1e9: above it a raw value is epoch seconds
EpochSeconds == 10

\* 1e12: above it a raw value is epoch milliseconds
EpochMillis == 10000

\* the range of Date: toISOString() throws RangeError outside of it
MaxDate == 86400000

\* Date.now() at the heartbeat
HbNow == 17000

\* new Date(ms).toISOString() inside try { } catch: the timestamp, or the
\* value lastSyncIso had before when the Date is invalid
ToISOString(ms, before) ==
  IF ms >= 0 - MaxDate /\ ms <= MaxDate THEN ms ELSE before

\* lastSyncVal > 1e12 ? ms : lastSyncVal > 1e9 ? s * 1000 : unchanged
AbsoluteLastSync(v, before) ==
  IF v.kind = "num" /\ v.val > EpochMillis THEN ToISOString(v.val, before)
  ELSE IF v.kind = "num" /\ v.val > EpochSeconds
  THEN ToISOString(v.val * 1000, before)
  ELSE before

\* (variant that never uses the uptime)
lastSyncIsoRaw(prev, uptime, lastSync) ==
  IF lastSync.kind = "absent" THEN prev ELSE AbsoluteLastSync(lastSync, prev)

\* lastSyncIso after the normalisation; prev is deviceStatus[id].lastSync
lastSyncIso(prev, uptime, lastSync) ==
  IF lastSync.kind = "absent" THEN prev
  ELSE IF uptime.kind = "absent" THEN AbsoluteLastSync(lastSync, prev)
  ELSE IF /\ uptime.kind = "num" /\ lastSync.kind = "num"
          /\ uptime.val >= lastSync.val
  THEN ToISOString(HbNow - (uptime.val - lastSync.val) * 1000, prev)
  ELSE AbsoluteLastSync(lastSync, prev)

\* uptimes: none, NaN, seconds since boot, one beyond every Date
HbUptimes == {Absent, NotANumber, Num(0), Num(3), Num(90000)}

\* lastSync values: none, NaN, uptime seconds, the two thresholds and
\* their successors, epoch seconds and milliseconds, values beyond Date
HbLastSyncs ==
  {Absent, NotANumber} \cup
  {Num(n) : n \in {0, 2, 5, EpochSeconds, EpochSeconds + 1, 16, 86401,
                   EpochMillis, EpochMillis + 1, 16500, MaxDate, MaxDate + 1}}

HbInit ==
  /\ hbArgs \in [uptime : HbUptimes, lastSync : HbLastSyncs,
                  prev : {NoTime, 16000}]
  /\ hbResult = << >>
  /\ DevIdle /\ CsIdle /\ MonIdle /\ RegIdle /\ PushIdle
  /\ CtlIdle /\ DogIdle /\ RsIdle /\ CycIdle /\ StoreIdle /\ TailIdle

\* lastSync: lastSyncIso || (deviceStatus[id] && deviceStatus[id].lastSync) || null
CallHeartbeat ==
  /\ hbResult = << >>
  /\ hbResult' = <<lastSyncIso(hbArgs.prev, hbArgs.uptime, hbArgs.lastSync)>>
  /\ UNCHANGED <<hbArgs, coordVars, devVars, csVars, monVars, regVars,
                 pushVars, ctlVars, dogVars, rsVars, cycVars, storeVars,
                 tailVars>>

SpecHeartbeat == HbInit /\ [][CallHeartbeat]_vars

(***************************************************************************)
(* Operator control of a device in automatic mode: the settings file has   *)
(* no manual override, the device has adopted its snapshot, and the        *)
(* operator sends on / off / clear through /api/control while the device's *)
(* timers run and its pulls are answered.  Nobody saves settings.          *)
(***************************************************************************)
\* settings files without manualOverride: none, or the automatic policy
AutoFiles == {<< >>, <<Policy("autoRev")>>}

\* the device right after adopting the snapshot built from `saved`
AdoptedInit ==
  /\ now = 1
  /\ priceCache = "wave"
  /\ events = 0
  /\ rtc = SlotOfTime(now)
  /\ CONFIG = OnPullOk(InitialConfig, ConfigAt(saved, priceCache, now), rtc).cfg
  /\ relay = RelayAfter(FALSE,
                OnPullOk(InitialConfig, ConfigAt(saved, priceCache, now), rtc).cmds)
  /\ pulls = {}
  /\ issued = << >>
  /\ rulesRun = FALSE
  /\ CsIdle /\ MonIdle /\ RegIdle /\ PushIdle /\ MoreIdle

ManualInit ==
  /\ saved \in AutoFiles
  /\ AdoptedInit

ManualNext ==
  \/ ApiControlSwitch
  \/ ApiControlClear
  \/ RulesTimer
  \/ TimerSync
  \/ PullOk
  \/ Tick

SpecManual == ManualInit /\ [][ManualNext]_vars

(***************************************************************************)
(* Reconciliation of a device in automatic mode: the coordinator compares  *)
(* the relay with the schedule and corrects it, while the clocks advance   *)
(* and the device re-applies its rules.                                    *)
(***************************************************************************)
\* the relay is switched at the device (its input, the vendor's app): the
\* script is not involved and CONFIG does not change
RelayToggled ==
  /\ relay' = ~relay
  /\ issued' = << >>
  /\ rulesRun' = FALSE
  /\ UNCHANGED <<CONFIG, rtc, pulls, coordVars, csVars, monVars, regVars,
                 pushVars, moreVars>>

CorrectiveNext ==
  \/ RelayToggled
  \/ ApiReconcile
  \/ RulesTimer
  \/ Tick

SpecCorrective == ManualInit /\ [][CorrectiveNext]_vars

\* the Liveness Monitor: polls, sweeps, heartbeats and process restarts
MonitorInit == MonInit /\ DevIdle /\ CsIdle /\ RegIdle /\ PushIdle /\ MoreIdle

SpecMonitor == MonitorInit /\ [][MonNext]_vars

\* sendTelegramMessage's promise settles (nobody awaits it): true after a
\* delivery, false once the retries are used up or the transport is not
\* configured; the alert is identified by the timestamp recorded for it
TransportReturns ==
  /\ notified # NoTime
  /\ delivery.at # notified
  /\ \E ok \in BOOLEAN : delivery' = [at |-> notified, ok |-> ok]
  /\ UNCHANGED <<coordVars, devVars, csVars, monVars, regVars, pushVars,
                 ctlVars, dogVars, rsVars, cycVars, storeVars, hbVars,
                 tsArgs, tsResult>>

DeliveryNext ==
  \/ MonNext
  \/ TransportReturns

\* the Liveness Monitor with the outcome of each alert's delivery
SpecDelivery == MonitorInit /\ [][DeliveryNext]_vars

(***************************************************************************)
(* Relay command harness: one call of turnOnShelly or turnOffShelly with   *)
(* two devices in deviceStatus.  An entry is << >> when deviceStatus has   *)
(* none for the id and <<e>> otherwise; error is << >> for null and the    *)
(* message otherwise.                                                      *)
(***************************************************************************)
StatusDevices == {"d1", "d2"}

\* the entry ensureDeviceState creates (the fields followed here)
FreshEntry == [online |-> FALSE, switchOn |-> FALSE, error |-> << >>]

\* ensureDeviceState(id) on the whole of deviceStatus
ensureDeviceEntry(status, id) ==
  IF status[id] = << >> THEN [status EXCEPT ![id] = <<FreshEntry>>]
  ELSE status

\* (variant that records the commanded state before the device answers)
turnShellyStatusOptimistic(status, id, command, answers) ==
  LET ensured == ensureDeviceEntry(status, id)
      r       == turnShelly(command, answers)
  IN  [ensured EXCEPT ![id] =
         <<[@[1] EXCEPT !.switchOn = (command = "on"),
                        !.error = IF r.ok THEN << >>
                                  ELSE Failed(command, <<answers[3]>>)]>>]

\* turnOnShelly (command "on") and turnOffShelly (command "off"):
\* deviceStatus after the call.  After the last tier failed the inner catch
\* stores errLegacy.message and throws; the outer catch stores the message
\* of that error, the function's prefix and the tier's message
turnShellyStatus(status, id, command, answers) ==
  LET ensured == ensureDeviceEntry(status, id)
      r       == turnShelly(command, answers)
  IN  IF r.ok
      THEN [ensured EXCEPT ![id] =
              <<[@[1] EXCEPT !.switchOn = (command = "on"), !.error = << >>]>>]
      ELSE [ensured EXCEPT ![id] =
              <<[@[1] EXCEPT !.error = Failed(command, <<answers[3]>>)]>>]

\* the entries a device can have before the call
StatusEntries ==
  {<< >>} \cup
  {<<[online |-> TRUE, switchOn |-> on, error |-> e]>> :
     on \in BOOLEAN, e \in {<< >>, <<"on", "timeout">>}}

TsInit ==
  /\ tsArgs \in [id : StatusDevices, command : {"on", "off"},
                  answers : [1..3 -> TierAnswers],
                  status : [StatusDevices -> StatusEntries]]
  /\ tsResult = << >>
  /\ delivery = NoDelivery
  /\ DevIdle /\ CsIdle /\ MonIdle /\ RegIdle /\ PushIdle
  /\ CtlIdle /\ DogIdle /\ RsIdle /\ CycIdle /\ StoreIdle /\ HbIdle

CallTurnShelly ==
  /\ tsResult = << >>
  /\ tsResult' = <<turnShellyStatus(tsArgs.status, tsArgs.id, tsArgs.command,
                                    tsArgs.answers)>>
  /\ UNCHANGED <<tsArgs, delivery, coordVars, devVars, csVars, monVars,
                 regVars, pushVars, ctlVars, dogVars, rsVars, cycVars,
                 storeVars, hbVars>>

SpecTurn == TsInit /\ [][CallTurnShelly]_vars

\* the monitor with the operator deleting and adding the device, and
\* requests made under the id while it is not registered
RegistryInit == MonInit /\ DevIdle /\ CsIdle /\ RegIdle /\ PushIdle /\ MoreIdle

SpecRegistry == RegistryInit /\ [][RegNext]_vars

\* the push-notify of the coordinator
PushInit == PushIdle /\ MoreIdle /\ DevIdle /\ CsIdle /\ MonIdle /\ RegIdle

SpecPush == PushInit /\ [][PushNext]_vars

\* the watchdog next to the coordinator's monitor
WatchdogInit ==
  MonInit /\ DevIdle /\ CsIdle /\ RegIdle /\ PushIdle /\ MoreIdle

SpecWatchdog == WatchdogInit /\ [][DogNext]_vars

(***************************************************************************)
(* Claims about the Schedule Compiler.                                     *)
(***************************************************************************)
CsSpp == SlotsPerPeriodOf(csSettings.timeFrame)

CsPeriods == 0..((SlotsPerDay \div CsSpp) - 1)

CsAvg(p) == PeriodAverage(csPrices, p, CsSpp)

CsPeriodAllOff(p) ==
  \A s \in (p * CsSpp)..(p * CsSpp + CsSpp - 1) : ~At(csResult, s)

CsSelected(p) ==
  SortPosition([q \in CsPeriods |-> CsAvg(q)], p, SlotsPerDay \div CsSpp)
    < csSettings.numCheapest

\* C10: in the output of computeSchedule every slot of every
\* period whose average price is strictly above maxPrice is OFF, whether
\* or not the period was among the cheapest or is also below minPrice.
C10_MaxAlwaysWins ==
  csResult # << >> =>
    \A p \in CsPeriods :
      AvgAbove(CsAvg(p), csSettings.maxPrice) => CsPeriodAllOff(p)

\* What computeSchedule does guarantee (the max-price branch is the else
\* of the min-price branch): every slot of every period whose average price
\* is strictly above maxPrice and not strictly below minPrice is OFF, also
\* when the period was selected among the numCheapest periods.
C10_MaxWinsUnlessBelowMin ==
  csResult # << >> =>
    \A p \in CsPeriods :
      (AvgAbove(CsAvg(p), csSettings.maxPrice)
         /\ ~AvgBelow(CsAvg(p), csSettings.minPrice)) => CsPeriodAllOff(p)

\* A computed schedule in which a period selected as one of the cheapest
\* lies above maxPrice and came out OFF.
C10_Witness ==
  /\ csResult # << >>
  /\ \E p \in CsPeriods :
       /\ CsSelected(p)
       /\ AvgAbove(CsAvg(p), csSettings.maxPrice)
       /\ ~AvgBelow(CsAvg(p), csSettings.minPrice)
       /\ CsPeriodAllOff(p)

\* the period's slots that exist in the price array, and their sum
C11_Count(p) == Cardinality(PeriodSlots(csPrices, p, CsSpp))

C11_Sum(p) == SumOver(csPrices, PeriodSlots(csPrices, p, CsSpp))

\* the arithmetic mean of period q is lower than that of period p (a period
\* without price slots counts as the most expensive)
C11_Cheaper(q, p) ==
  IF C11_Count(q) = 0 THEN FALSE
  ELSE IF C11_Count(p) = 0 THEN TRUE
  ELSE C11_Sum(q) * C11_Count(p) < C11_Sum(p) * C11_Count(q)

\* the number of periods that come before p when the periods are ordered
\* by average price, equal averages by period index
C11_Rank(p) ==
  Cardinality({q \in CsPeriods :
                 \/ C11_Cheaper(q, p)
                 \/ (~C11_Cheaper(p, q) /\ q < p)})

C11_PeriodOn(p) == At(csResult, p * CsSpp)

C12_ZeroDayStaysOff ==
  (/\ csResult # << >>
   /\ Len(csPrices) >= SlotsPerDay
   /\ \A i \in 1..Len(csPrices) : csPrices[i] = 0
   /\ csSettings.numCheapest = 0)
    => \A s \in 1..SlotsPerDay : ~csResult[s]

\* C13: a period without any contributing price slot is never ON, for every
\* numCheapest, minPrice and maxPrice.
C13_EmptyPeriodOff ==
  csResult # << >> =>
    \A p \in CsPeriods :
      PeriodSlots(csPrices, p, CsSpp) = {} => CsPeriodAllOff(p)

(***************************************************************************)
(* Claims about the snapshot builder.                                      *)
(***************************************************************************)
\* C14: the snapshot built by buildConfigForDevice carries a schedule of 96
\* entries: all ON when the saved policy has manualOverride with manualState
\* "on", all OFF with manualState "off", and computeSchedule(prices, policy)
\* in every other case.
C14_ScheduleSelection ==
  built # << >> =>
    LET policy   == SettingsOrDefault(saved)
        schedule == built[1].schedule
    IN  /\ Len(schedule) = SlotsPerDay
        /\ IF policy.manualOverride /\ policy.manualState = "on"
           THEN \A i \in 1..SlotsPerDay : schedule[i]
           ELSE IF policy.manualOverride /\ policy.manualState = "off"
           THEN \A i \in 1..SlotsPerDay : ~schedule[i]
           ELSE schedule = computeSchedule(CachePrices(priceCache), policy)

\* a forced-off policy over prices for which computeSchedule turns slots ON
C14_Witness ==
  /\ built # << >>
  /\ saved = <<Policy("forceOff")>>
  /\ \A i \in 1..SlotsPerDay : ~built[1].schedule[i]
  /\ \E i \in 1..SlotsPerDay :
       computeSchedule(CachePrices(priceCache), saved[1])[i]

(***************************************************************************)
(* Claims about the push-notify cooldown.                                  *)
(***************************************************************************)
\* the cooldown the next push is tested against
C15_Current == Cooldown(PushObjOf(pushState))

\* min(2 s * 2^k, 300 s) after k consecutive failed pushes
C15_Expected == Min2(MinCooldown * 2^pushFails, MaxCooldown)

\* C15: the cooldown lies between 2 s and 300 s, equals min(2 s * 2^k, 300 s)
\* after k consecutive failed pushes since the last success (so a success
\* resets it to 2 s), and a push invoked less than one cooldown after the
\* previous attempt sends no request.
C15_Cooldown ==
  [][/\ C15_Current' >= MinCooldown
     /\ C15_Current' <= MaxCooldown
     /\ C15_Current' = C15_Expected'
     /\ Len(pushing') > Len(pushing) => sinceTry >= C15_Expected]_vars

\* C31: when two pushes for the device overlap, the one that starts within
\* the cooldown of the other's start sends no request, and every push that
\* sent requests and failed doubles the cooldown once (up to the cap), also
\* when the device had no push state before.
C31_AtomicCooldown ==
  [][/\ (Len(pushing) > 0 /\ Len(pushing') > Len(pushing)) =>
          sinceTry >= Cooldown(PushObjOf(pushState))
     /\ pushFails' = pushFails + 1 =>
          Cooldown(PushObjOf(pushState'))
            = Min2(2 * Cooldown(PushObjOf(pushState)), MaxCooldown)]_vars

C32_Order == <<"script notify", "legacy notify", "rpc refresh">>

C21_Order == <<"script", "rpc", "legacy">>

\* C21: a manual on/off command requests the tiers in the order script,
\* RPC, legacy; a tier is requested only if every tier before it failed; a
\* success ends the command; when all three fail the command fails with an
\* error that carries the legacy tier's error message.
C21_TierFallback ==
  (ctlResult # << >> /\ ctlArgs.action \in {"on", "off"}) =>
    LET r == ctlResult[1]
        n == Len(r.requests)
        a == ctlArgs.answers
    IN  /\ n \in 1..3
        /\ \A i \in 1..n : r.requests[i].tier = C21_Order[i]
        /\ \A i \in 1..(n - 1) : a[i] # "ok"
        /\ IF a[n] = "ok"
           THEN r.code = 200 /\ r.error = << >>
           ELSE /\ n = 3
                /\ r.code # 200
                /\ r.error # << >>
                /\ r.error[Len(r.error)] = a[3]

\* all three tiers failed, each with its own message
C21_Witness ==
  /\ ctlResult # << >>
  /\ ctlArgs.action = "off"
  /\ ctlArgs.answers = <<"timeout", "ECONNREFUSED", "status 500">>
  /\ Len(ctlResult[1].requests) = 3
  /\ ctlResult[1].error[Len(ctlResult[1].error)] = "status 500"

\* C22: for action on or off every command sent to the device is ON exactly
\* when (action = on) differs from reversedControl of the saved policy;
\* action clear is not inverted and sends clearOverride; any other action
\* sends nothing and the request fails.
C22_ReversedControl ==
  ctlResult # << >> =>
    LET r        == ctlResult[1]
        action   == ctlArgs.action
        reversed == saved # << >> /\ saved[1].reversedControl
    IN  /\ action \in {"on", "off"} =>
             /\ r.requests # << >>
             /\ \A i \in 1..Len(r.requests) :
                  (r.requests[i].command = "on") = ((action = "on") # reversed)
             /\ \A i \in 1..Len(r.requests) :
                  r.requests[i].command \in {"on", "off"}
        /\ action = "clear" =>
             /\ r.requests # << >>
             /\ r.requests[1] = TierRequest("script", "clearOverride")
             /\ \A i \in 1..Len(r.requests) :
                  r.requests[i].command \notin {"on", "off"}
        /\ action \notin {"on", "off", "clear"} =>
             /\ r.requests = << >>
             /\ r.code # 200

\* "on" was requested for a device with reversed control: OFF was sent
C22_Witness ==
  /\ ctlResult # << >>
  /\ ctlArgs.action = "on"
  /\ saved # << >>
  /\ saved[1].reversedControl
  /\ ctlResult[1].requests[1].command = "off"
  /\ ctlResult[1].code = 200

\* C23: reconciliation sends no command when the saved policy has
\* manualOverride; otherwise it sends at most one on/off command (tried tier
\* by tier), and sends it exactly when the polled switch state differs from
\* schedule[current slot] XOR reversedControl, the command setting the relay
\* to that value.
C23_Reconcile ==
  ctlResult # << >> =>
    LET r        == ctlResult[1]
        n        == Len(r.requests)
        reversed == saved # << >> /\ saved[1].reversedControl
        target   == At(ReconcileSchedule(saved, priceCache), SlotOfTime(now))
                      # reversed
    IN  IF saved # << >> /\ saved[1].manualOverride
        THEN n = 0
        ELSE /\ (n > 0) = ((ctlArgs.polled = "on") # target)
             /\ \A i \in 1..n :
                  r.requests[i].command = IF target THEN "on" ELSE "off"
             /\ \A i \in 1..(n - 1) : ctlArgs.answers[i] # "ok"

\* the relay was polled on while the schedule, reversed, wants it off: one
\* OFF command went out and the first tier took it
C23_Witness ==
  /\ ctlResult # << >>
  /\ saved = <<Policy("autoRev")>>
  /\ ctlArgs.polled = "on"
  /\ At(ReconcileSchedule(saved, priceCache), SlotOfTime(now))
  /\ ctlResult[1].requests = <<TierRequest("script", "off")>>

Delivered(m) ==
  /\ m \in pulls
  /\ m.phase = "resp"
  /\ m.code = 200
  /\ pulls' = pulls \ {m}

\* C1: the applied snapshot version never moves to an older value, whatever
\* the order of pull responses and of applyConfig / applyConfigSummary
\* commands.
C1_FreshnessMonotone ==
  [][CONFIG'.lastConfigUpdate >= CONFIG.lastConfigUpdate]_vars

\* the acceptance conditions of a pulled snapshot, as the contract words
\* them: 96 schedule entries, at least 96 non-negative prices, at least 48
\* of them non-zero
C4_Acceptable(snap) ==
  /\ Len(snap.schedule) = SlotsPerDay
  /\ Len(snap.prices) >= SlotsPerDay
  /\ \A i \in 1..Len(snap.prices) : snap.prices[i] >= 0
  /\ Cardinality({i \in 1..Len(snap.prices) : snap.prices[i] # 0})
       >= MinNonZeroPrices

C4_Kept ==
  /\ CONFIG'.prices = CONFIG.prices
  /\ CONFIG'.schedule = CONFIG.schedule
  /\ CONFIG'.minPrice = CONFIG.minPrice
  /\ CONFIG'.maxPrice = CONFIG.maxPrice
  /\ CONFIG'.numCheapest = CONFIG.numCheapest
  /\ CONFIG'.timeFrame = CONFIG.timeFrame
  /\ CONFIG'.manualOverride = CONFIG.manualOverride
  /\ CONFIG'.manualState = CONFIG.manualState
  /\ CONFIG'.fallbackHours = CONFIG.fallbackHours
  /\ CONFIG'.lastConfigUpdate = CONFIG.lastConfigUpdate

\* C4: a pulled snapshot that fails the acceptance conditions leaves the
\* applied prices, schedule, policy fields and lastConfigUpdate as they were.
C4_RejectKeepsPrevious ==
  [][\A m \in pulls :
       (Delivered(m) /\ ~C4_Acceptable(m.body[1])) => C4_Kept]_vars

\* C5: every switch command is physical = (reversedControl ? NOT logical :
\* logical) for the logical state its caller intends and the reversedControl
\* flag in force at the call.
C5_CommandsInverted ==
  \A i \in 1..Len(issued) :
    issued[i].on = (IF issued[i].rc THEN ~issued[i].logical
                    ELSE issued[i].logical)

\* C6: a rule-evaluation pass with manualOverride set and manualState null
\* issues no switch command and leaves the relay as it was.
C6_PausedPreserves ==
  [][(rulesRun' /\ CONFIG'.manualOverride /\ CONFIG'.manualState = Null)
       => (issued' = << >> /\ relay' = relay)]_vars

\* a pass ran while paused, the relay being on, and it stayed on
C6_Witness ==
  /\ rulesRun
  /\ CONFIG.manualOverride
  /\ CONFIG.manualState = Null
  /\ issued = << >>
  /\ relay

\* C7: a rule-evaluation pass with manualOverride set and manualState on or
\* off issues exactly one command, physical = (manualState = on) XOR
\* reversedControl, whatever the schedule, prices, validation or slot.
C7_ForcedState ==
  (rulesRun /\ CONFIG.manualOverride /\ CONFIG.manualState \in {"on", "off"})
    => /\ Len(issued) = 1
       /\ issued[1].on = Xor(CONFIG.manualState = "on", CONFIG.reversedControl)
       /\ relay = issued[1].on

\* forced OFF on a reversed relay, with prices and schedule that would say
\* otherwise absent: the relay is physically on
C7_Witness ==
  /\ rulesRun
  /\ CONFIG.manualOverride
  /\ CONFIG.manualState = "off"
  /\ CONFIG.reversedControl
  /\ Len(issued) = 1
  /\ issued[1].on

\* "holds a snapshot that passes validation": 96 schedule entries and at
\* least 96 prices of which fewer than 49 fail to be positive
C8_HoldsValid(cfg) ==
  /\ Len(cfg.schedule) = SlotsPerDay
  /\ Len(cfg.prices) >= SlotsPerDay
  /\ Len(cfg.prices) - Cardinality({i \in 1..Len(cfg.prices) : cfg.prices[i] <= 0})
       >= MinNonZeroPrices

\* fallbackHours[current hour] of the device clock, logical OFF when
\* fallbackHours is not a 24-entry array
C8_FallbackState(cfg, slot) ==
  IF Len(cfg.fallbackHours) = HoursPerDay
  THEN cfg.fallbackHours[(slot \div 4) + 1]
  ELSE FALSE

C3_NoDuplicateAfterRestart == priorAlert => alertOutcome # "sent"

\* C16: an accepted heartbeat (the id is in the registry) leaves the device
\* online with lastHeartbeat at the current time, no error, and no offline
\* notification record, neither in deviceStatus nor in the persisted store.
C16_HeartbeatClears ==
  monOp = "heartbeat" =>
    /\ deviceStatus.present
    /\ deviceStatus.online
    /\ deviceStatus.lastHeartbeat = now
    /\ ~deviceStatus.error
    /\ deviceStatus.lastNotified = NoTime
    /\ notified = NoTime

\* a heartbeat was accepted while an alert was on record
C16_Witness ==
  /\ monOp = "heartbeat"
  /\ hadAlert
  /\ deviceStatus.online
  /\ deviceStatus.lastNotified = NoTime
  /\ notified = NoTime

\* C17: a status poll that succeeds while an alert is on record clears the
\* alert timestamp, in deviceStatus and in the persisted store.
C17_PollClearsAlert ==
  (monOp = "pollOk" /\ hadAlert) =>
    /\ deviceStatus.lastNotified = NoTime
    /\ notified = NoTime

\* C18: a sweep of a device whose most recent status poll reported it
\* reachable sends no alert and leaves the device's entry as it is, however
\* old the last heartbeat; a sweep sends an alert only when the heartbeat is
\* absent or older than the threshold and the most recent poll did not
\* report the device reachable.
C18_ReachableOverrides ==
  [][monOp' = "sweep" =>
       /\ lastPoll = "reachable" =>
            /\ alertOutcome' # "sent"
            /\ deviceStatus' = deviceStatus
            /\ notified' = notified
       /\ alertOutcome' = "sent" =>
            /\ NoRecentHeartbeat(deviceStatus, now)
            /\ lastPoll # "reachable"]_vars

\* the last poll reported the device reachable, its heartbeat is stale, and
\* the sweep that just ran sent nothing and left it online
C18_Witness ==
  /\ monOp = "sweep"
  /\ lastPoll = "reachable"
  /\ deviceStatus.lastHeartbeat # NoTime
  /\ now - deviceStatus.lastHeartbeat > ThresholdTicks
  /\ deviceStatus.online
  /\ alertOutcome = "none"

\* the delivery of the alert on record has failed
C39_DeliveryFailed ==
  /\ notified # NoTime
  /\ delivery.at = notified
  /\ ~delivery.ok

\* a poll or a sweep hands an alert to the transport (a step in which a
\* delivery settles is not one)
C39_HandsOver ==
  /\ delivery' = delivery
  /\ monOp' \in {"pollFail", "sweep"}
  /\ alertOutcome' = "sent"

\* C39: an operation that hands an alert to the transport records the
\* current time in deviceStatus and in the persisted store in the same step,
\* whatever the delivery does afterwards; and once the delivery of the alert
\* on record has failed, no later poll or sweep hands over another alert
\* as long as no heartbeat is accepted.
C39_FailedDeliveryNotResent ==
  [][/\ C39_HandsOver =>
          /\ deviceStatus'.lastNotified = now
          /\ notified' = now
     /\ C39_DeliveryFailed => ~C39_HandsOver]_vars

\* C25: the sweep never throws, also for a registered device that has no
\* entry in deviceStatus yet.
C25_SweepNeverThrows == monOp # "sweepThrows"

(***************************************************************************)
(* Relay commands and the device's status entry.                           *)
(***************************************************************************)
\* the entry of the commanded device before the call, the defaults of
\* ensureDeviceState when it had none
C40_Before ==
  IF tsArgs.status[tsArgs.id] = << >> THEN FreshEntry
  ELSE tsArgs.status[tsArgs.id][1]

C40_SomeTierSucceeds == \E i \in 1..3 : tsArgs.answers[i] = "ok"

\* C40: after turnOnShelly / turnOffShelly the commanded device's entry has
\* switchOn equal to the commanded state and no error when some tier
\* succeeded, and its previous switchOn with error set to the failure
\* message (the function's prefix and the last tier's message) when all
\* tiers failed; the other device's entry is what it was.
C40_StatusAfterCommand ==
  tsResult # << >> =>
    LET after == tsResult[1]
        id    == tsArgs.id
    IN  /\ after[id] # << >>
        /\ C40_SomeTierSucceeds =>
              /\ after[id][1].switchOn = (tsArgs.command = "on")
              /\ after[id][1].error = << >>
        /\ ~C40_SomeTierSucceeds =>
              /\ after[id][1].switchOn = C40_Before.switchOn
              /\ after[id][1].error # << >>
              /\ after[id][1].error = Failed(tsArgs.command, <<tsArgs.answers[3]>>)
        /\ after[id][1].online = C40_Before.online
        /\ \A d \in StatusDevices \ {id} : after[d] = tsArgs.status[d]

\* every tier failed a turn-off of a device recorded as on without error,
\* beside another device with an entry: the entry still says on, and
\* carries the error
C40_Witness ==
  /\ tsResult # << >>
  /\ tsArgs.command = "off"
  /\ ~C40_SomeTierSucceeds
  /\ tsArgs.status[tsArgs.id] # << >>
  /\ C40_Before.switchOn
  /\ C40_Before.error = << >>
  /\ tsResult[1][tsArgs.id][1].switchOn
  /\ tsResult[1][tsArgs.id][1].error = <<"off", tsArgs.answers[3]>>
  /\ \E d \in StatusDevices \ {tsArgs.id} :
        /\ tsArgs.status[d] # << >>
        /\ tsResult[1][d] = tsArgs.status[d]

(***************************************************************************)
(* Device registry: unknown ids and deletion.                              *)
(***************************************************************************)
\* the operations keyed by a device id
C19_KeyedOps ==
  {"pull", "heartbeat", "control", "reconcile", "poll", "syncRules",
   "saveSettings"}

\* C19: an operation keyed by a device id that is invoked with an id absent
\* from the registry is answered with a 4xx status and leaves the status
\* map, the persisted policy and the notification store unchanged.
C19_UnknownRejected ==
  [][(~registered /\ request' # request /\ request'.op \in C19_KeyedOps) =>
       /\ request'.code \in 400..499
       /\ UNCHANGED <<deviceStatus, saved, notified>>]_vars

\* C20: once the operator has deleted the device neither its settings file
\* nor its persisted notification timestamp remains, and a device registered
\* under the same id afterwards starts with no alert record.
C20_DeletePurges ==
  [][/\ (registered /\ ~registered') => (saved' = << >> /\ notified' = NoTime)
     /\ (~registered /\ registered') =>
          (notified' = NoTime /\ deviceStatus'.lastNotified = NoTime)]_vars

(***************************************************************************)
(* Device alone: slot transitions between syncs.                           *)
(***************************************************************************)
\* C26: a rule re-application made without a successful sync since the last
\* one commands schedule[slot of the wall clock], also after the clock has
\* crossed a slot boundary and when the adopted snapshot carried a
\* serverSlot.
C26_SlotTransitions ==
  (rulesRun /\ ~CONFIG.manualOverride /\ validateConfig(CONFIG)) =>
    /\ Len(issued) = 1
    /\ issued[1].logical = At(CONFIG.schedule, rtc)

\* C27: for every serverSlot s in 0..95 and every timeFrame the slot resolved
\* from s lies in 0..95 and in the same period as s.
C27_ResolvedInPeriod ==
  rsResult # << >> =>
    /\ rsResult[1] \in 0..(SlotsPerDay - 1)
    /\ rsResult[1] \div SlotsPerPeriodOf(rsArgs.timeFrame)
         = rsArgs.serverSlot \div SlotsPerPeriodOf(rsArgs.timeFrame)

(***************************************************************************)
(* Device alone: retry cycles and stale snapshots.                         *)
(***************************************************************************)
\* the failures the retry rule is stated for: no response, or a 5xx status
TransportOr5xx(code) == code \in TransportErrors \/ code \in 500..599

\* C28: a failed pull is retried iff it was a transport failure or a 5xx
\* response and fewer than 3 retries were made, after baseDelay * 2^k; when
\* the cycle is abandoned applyRules runs once on the previous snapshot.
C28_RetryPolicy ==
  /\ sync.phase = "timer" =>
       /\ TransportOr5xx(sync.code[1])
       /\ sync.retryCount < 3
       /\ sync.delay = SyncBaseDelay * 2 ^ sync.retryCount
  /\ (sync.phase = "end" /\ sync.code # <<200>>) =>
       /\ ~(TransportOr5xx(sync.code[1]) /\ sync.retryCount < 3)
       /\ sync.applied = 1
       /\ CONFIG.prices = sync.prev[1].prices
       /\ CONFIG.schedule = sync.prev[1].schedule
       /\ CONFIG.lastConfigUpdate = sync.prev[1].lastConfigUpdate

\* C29: a sync cycle makes at most 4 pulls and a heartbeat cycle at most 3
\* posts, a cycle that ended has no retry timer pending, and every cycle
\* that started ends, whatever the calls answer.
C29_CyclesBounded ==
  /\ [](/\ sync.calls <= 4
        /\ beat.calls <= 3
        /\ (sync.phase = "end" => sync.delay = 0)
        /\ (beat.phase = "end" => beat.delay = 0))
  /\ (sync.phase \in {"call", "timer"}) ~> (sync.phase = "end")
  /\ (beat.phase \in {"call", "timer"}) ~> (beat.phase = "end")

\* both cycles used every retry and ended
C29_Witness ==
  /\ sync.phase = "end" /\ sync.calls = 4
  /\ beat.phase = "end" /\ beat.calls = 3

\* the pull that ended the sync cycle brought a well-formed snapshot that is
\* not strictly newer than the applied one
StalePull ==
  /\ sync.phase = "end"
  /\ sync.code = <<200>>
  /\ StructureOk(sync.snap[1])
  /\ sync.prev[1].lastConfigUpdate # NoTime
  /\ sync.snap[1].lastUpdated <= sync.prev[1].lastConfigUpdate

\* C30: a snapshot that is not strictly newer leaves the policy fields,
\* prices, schedule and lastConfigUpdate unchanged and issues no switch
\* command; only reversedControl is taken over, and lastPrice is refreshed
\* from the prices already held.
C30_StaleIgnored ==
  StalePull =>
    /\ CONFIG.minPrice = sync.prev[1].minPrice
    /\ CONFIG.maxPrice = sync.prev[1].maxPrice
    /\ CONFIG.numCheapest = sync.prev[1].numCheapest
    /\ CONFIG.timeFrame = sync.prev[1].timeFrame
    /\ CONFIG.manualOverride = sync.prev[1].manualOverride
    /\ CONFIG.manualState = sync.prev[1].manualState
    /\ CONFIG.fallbackHours = sync.prev[1].fallbackHours
    /\ CONFIG.prices = sync.prev[1].prices
    /\ CONFIG.schedule = sync.prev[1].schedule
    /\ CONFIG.lastConfigUpdate = sync.prev[1].lastConfigUpdate
    /\ issued = << >>
    /\ sync.applied = 0
    /\ CONFIG.reversedControl = sync.snap[1].reversedControl
    /\ \E i \in 1..Len(sync.prev[1].prices) :
         CONFIG.lastPrice = <<sync.prev[1].prices[i]>>

\* a stale snapshot with another policy and the opposite reversedControl
C30_Witness ==
  /\ StalePull
  /\ sync.snap[1].reversedControl # sync.prev[1].reversedControl
  /\ sync.snap[1].manualOverride # sync.prev[1].manualOverride

(***************************************************************************)
(* Claims about operator control of a device.                              *)
(***************************************************************************)
\* C35: with reversedControl set on both sides, a rule application made
\* while the override set by an operator's on / off is active commands the
\* physical relay state that the control command set (the device records
\* manualState "on" exactly when the command switched the relay on).
C35_OverrideHolds ==
  (rulesRun /\ CONFIG.manualOverride /\ CONFIG.reversedControl /\ SavedReversed
     /\ CONFIG.manualState \in {"on", "off"}) =>
    /\ Len(issued) = 1
    /\ issued[1].on = (CONFIG.manualState = "on")

\* C37: a successful pull leaves a device that a control command has put
\* into manual override in that override, with the same forced state.
C37_OverrideSurvivesSync ==
  [][(/\ CONFIG.manualOverride
      /\ CONFIG.manualState \in {"on", "off"}
      /\ \E m \in pulls \ pulls' : m.phase = "resp" /\ m.code = 200) =>
       /\ CONFIG'.manualOverride
       /\ CONFIG'.manualState = CONFIG.manualState]_vars

\* C36: after reconciliation has switched the relay the device is still
\* under automatic control (manualOverride false), and a rule application
\* follows the schedule.
C36_StaysAutomatic ==
  /\ (issued # << >> /\ ~rulesRun) => ~CONFIG.manualOverride
  /\ (rulesRun /\ validateConfig(CONFIG)) =>
       /\ Len(issued) = 1
       /\ issued[1].logical = At(CONFIG.schedule, RuleSlot(CONFIG, rtc))

\* C38: adopting a snapshot whose manualOverride is true and whose
\* manualState is null issues no switch command and leaves the relay as it
\* was, whatever its prices and schedule.
C38_PausedAdoptionSilent ==
  [][(\E m \in pulls \ pulls' :
        /\ m.phase = "resp" /\ m.code = 200
        /\ StructureOk(m.body[1])
        /\ m.body[1].manualOverride
        /\ m.body[1].manualState = Null
        /\ (CONFIG.lastConfigUpdate = NoTime
              \/ m.body[1].lastUpdated > CONFIG.lastConfigUpdate)) =>
       /\ issued' = << >>
       /\ relay' = relay]_vars

(***************************************************************************)
(* Claims about the heartbeat's lastSync.                                  *)
(***************************************************************************)
\* the device reported both values as numbers and uptime >= lastSync
C34_Relative ==
  /\ hbArgs.uptime.kind = "num"
  /\ hbArgs.lastSync.kind = "num"
  /\ hbArgs.uptime.val >= hbArgs.lastSync.val

\* what the stored lastSync is said to be, from the time computed
C34_Stated(Time(_)) ==
  IF C34_Relative
  THEN Time(HbNow - (hbArgs.uptime.val - hbArgs.lastSync.val) * 1000)
  ELSE IF hbArgs.lastSync.kind = "num" /\ hbArgs.lastSync.val > EpochMillis
  THEN Time(hbArgs.lastSync.val)
  ELSE IF hbArgs.lastSync.kind = "num" /\ hbArgs.lastSync.val > EpochSeconds
  THEN Time(hbArgs.lastSync.val * 1000)
  ELSE hbArgs.prev

\* every millisecond count is a time
C34_AnyTime(ms) == ms

\* only the millisecond counts a Date can hold are times
C34_DateTime(ms) ==
  IF ms >= 0 - MaxDate /\ ms <= MaxDate THEN ms ELSE hbArgs.prev

\* C34 as stated: the stored lastSync is now - (uptime - lastSync) when both
\* are reported and uptime >= lastSync, else the raw value read as epoch
\* milliseconds (above 1e12) or seconds (above 1e9), else the value stored
\* before.
C34_LastSyncNormalized ==
  hbResult # << >> =>
    hbResult[1] = C34_Stated(C34_AnyTime)

\* C34: the same, where the time computed is one a Date can hold; a time
\* beyond that range leaves the previously stored lastSync in place.  A
\* value computed from the uptime is never later than now.
C34_LastSyncInRange ==
  hbResult # << >> =>
    /\ hbResult[1] = C34_Stated(C34_DateTime)
    /\ (C34_Relative /\ hbResult[1] # hbArgs.prev) => hbResult[1] <= HbNow

\* a heartbeat with uptime 3 and lastSync 2 replaced the stored lastSync
C34_Witness ==
  /\ hbResult # << >>
  /\ C34_Relative
  /\ hbArgs.prev # NoTime
  /\ hbResult[1] = HbNow - 1000

(***************************************************************************)
(* Claims about the shared notification store.                             *)
(***************************************************************************)
\* C33: an update of the server-level record by the watchdog process never
\* changes the device's record in the file, and an update of the device's
\* record by the server process never changes the server-level record,
\* however the two processes' load-modify-save steps interleave.
C33_RecordsDecoupled ==
  [][/\ (loaded["watchdog"] # << >> /\ loaded'["watchdog"] = << >>) =>
          notified' = notified
     /\ (loaded["server"] # << >> /\ loaded'["server"] = << >>) =>
          serverNotified' = serverNotified]_vars

(***************************************************************************)
(* Device protocol: convergence.                                           *)
(***************************************************************************)
\* the device's applied manualOverride, manualState, reversedControl and
\* schedule are those of the snapshot built from the saved policy
C9_Applied ==
  LET snap == ConfigTable[saved][priceCache]
  IN  /\ CONFIG.manualOverride = snap.manualOverride
      /\ CONFIG.manualState = snap.manualState
      /\ CONFIG.reversedControl = snap.reversedControl
      /\ CONFIG.schedule = snap.schedule

\* C9: after the last save, once pulls succeed and the price data is valid,
\* the device's applied manualOverride, manualState, reversedControl and
\* schedule eventually equal those of the snapshot built from the saved
\* policy and stay so, also when the push-notify of the save was lost.
C9_Converges == (<>[](priceCache = "wave")) => <>[]C9_Applied

\* a policy was saved, the budget of saves and pushes is used up, nothing is
\* in flight and the device holds the policy from a pull made at the last tick
C9_Witness ==
  /\ saved = <<Policy("forceOn")>>
  /\ priceCache = "wave"
  /\ events = MaxEvents
  /\ pulls = {}
  /\ CONFIG.lastConfigUpdate = MaxTime
  /\ C9_Applied

====
